---- MODULE Spec2Model ----
(***************************************************************************)
(* nahcloud: the Terraform HTTP remote-state backend (GET / POST / DELETE  *)
(* / LOCK / UNLOCK on /v1/tfstate/{id}).                                   *)
(*                                                                         *)
(* Layers, bottom up:                                                      *)
(*   - the metadata table of storage/sqlite/db.go (UNIQUE(org_id, path)),  *)
(*   - the State Store (Read, Write, Delete, TryAcquireLock, ReleaseLock), *)
(*   - the Lock-Aware State Service (GetState .. ReleaseLock),             *)
(*   - the handlers TFStateGet .. TFStateUnlock, reached through the       *)
(*     routes registered by SetupRouter.                                   *)
(* The router, the TFStateLock payload, decodeJSON and the metadata schema *)
(* are modelled from the sources; the bodies of the store, the service and *)
(* the handlers (api/tfstate_handlers.go, service/tfstate.go,              *)
(* storage/sqlite/metadata_repository.go) follow spec.md sections 4 to 7.  *)
(* A TEXT value (a request or response body, a metadata value) is a        *)
(* function from keys to strings: a JSON object is the function of its     *)
(* members, raw bytes b are the one-member function [bytes |-> b].         *)
(* The row columns id, created_at and updated_at play no part in the       *)
(* protocol and are left out.                                              *)
(*                                                                         *)
(* The /v1 API around it: SetupRouter's routes, AuthMiddleware, resolveOrg *)
(* and resolveProject, and the organization, API key and project handlers  *)
(* with their service operations and tables, all from the sources.  Of the *)
(* organizations, api_keys and projects tables the columns name,           *)
(* created_at, updated_at and last_used_at are left out, except the name   *)
(* of an API key.                                                          *)
(*                                                                         *)
(* The endec tokens (Encode, Decode, CreateToken, ParseToken) over strings *)
(* as character sequences.                                                 *)
(*                                                                         *)
(* The service operations on organizations, projects, instances, buckets   *)
(* and objects over the tables of initSchema with their PRIMARY KEY,       *)
(* UNIQUE and FOREIGN KEY ... ON DELETE CASCADE constraints, called by     *)
(* concurrent workers one SQL statement a step.  The instance, bucket and  *)
(* object repositories (storage/sqlite/instance_repository.go,             *)
(* bucket_repository.go, object_repository.go) follow the organization and *)
(* project repositories of the sources.                                    *)
(***************************************************************************)
EXTENDS Integers, FiniteSets, Sequences, TLC

VARIABLES
    metadata,   \* the rows of the metadata table
    pc,         \* per client: "idle", "pending" (request in flight), "done"
    req,        \* per client: the request sent last
    resp,       \* per client: the response to it, once "done"
    pre,        \* per client: the (blob, lock) of the request's id its handler found,
                \* and whether another request on that id was in flight then
    nops,       \* number of requests sent so far
    db          \* the organizations, api_keys and projects tables and the
                \* number of ids generated so far

vars == <<metadata, pc, req, resp, pre, nops, db>>

(* ------------------------------ bounds -------------------------------- *)
MaxOps == 3
NumRacers == 3
MaxCalls == 4

Clients == {1, 2}
Racers == 1..NumRacers
StateIds == {"a", "b"}
Tokens == {"t1", "t2"}
Blobs == {"b1", "b2"}

(* ------------------------------- text --------------------------------- *)
Bytes(b) == [bytes |-> b]
NoBody == Bytes("")
Malformed == Bytes("{")
IsJSONObject(t) == "bytes" \notin DOMAIN t
\* the strings time.Time.UnmarshalJSON accepts (RFC 3339)
Timestamps == {"0001-01-01T00:00:00Z", "2024-01-01T00:00:00Z"}
\* a JSON object whose Created member is a string that is not a time
IllTyped == [ID |-> "t1", Created |-> "yesterday"]

(* domain.TFStateLock and its json tags. *)
LockFields == {"ID", "Operation", "Info", "Who", "Version", "Created", "Path"}
\* the string fields tagged omitempty; Created is a time.Time struct, which
\* encoding/json never omits, and ID carries no omitempty
OmitEmpty == {"Operation", "Info", "Who", "Version", "Path"}
ZeroTime == "0001-01-01T00:00:00Z"
ZeroOf(f) == IF f = "Created" THEN ZeroTime ELSE ""

TFStateLockOf(id, who) ==
    [f \in LockFields |->
        CASE f = "ID" -> id
          [] f = "Who" -> who
          [] f = "Operation" -> "OperationTypeApply"
          [] f = "Created" -> "2024-01-01T00:00:00Z"
          [] OTHER -> ""]

\* json.Marshal of a TFStateLock
MarshalLockDropsWho(l) ==
    LET keys == {f \in LockFields \ {"Who"} : f \notin OmitEmpty \/ l[f] # ""}
    IN  [f \in keys |-> l[f]]

MarshalLock(l) ==
    LET keys == {f \in LockFields : f \notin OmitEmpty \/ l[f] # ""}
    IN  [f \in keys |-> l[f]]

\* json.Decode into a TFStateLock whose ID field is tagged `json:"LockID"`
UnmarshalLockOtherTag(t) ==
    [f \in LockFields |->
        IF f = "ID" THEN (IF "LockID" \in DOMAIN t THEN t["LockID"] ELSE "")
        ELSE IF f \in DOMAIN t THEN t[f] ELSE ZeroOf(f)]

\* json.Decode of an object into a TFStateLock: absent members stay zero
UnmarshalLock(t) ==
    [f \in LockFields |-> IF f \in DOMAIN t THEN t[f] ELSE ZeroOf(f)]

\* json.Decode of t into a TFStateLock returns no error
WellTyped(t) ==
    /\ IsJSONObject(t)
    /\ "Created" \in DOMAIN t => t["Created"] \in Timestamps

\* json.Decode of t leaves the member that failed to decode at its zero value
\* and fills in the members decoded before it
Decoded(t) ==
    IF IsJSONObject(t) /\ ~WellTyped(t)
    THEN UnmarshalLock([f \in DOMAIN t \ {"Created"} |-> t[f]])
    ELSE UnmarshalLock(t)

\* Handler.decodeJSON with the error of json.Decode dropped
DecodeJSONIgnoresError(body) == [ok |-> TRUE, lock |-> Decoded(body)]

\* Handler.decodeJSON
DecodeJSON(body) ==
    IF WellTyped(body)
    THEN [ok |-> TRUE, lock |-> Decoded(body)]
    ELSE [ok |-> FALSE, lock |-> Decoded(body)]

(* -------------------------- metadata table ---------------------------- *)
TFStateOrg == "tfstate-org"
StatePath(id) == <<"tfstate", id, "state">>
LockPath(id) == <<"tfstate", id, "lock">>

\* the rows of one organization, whatever their path
RowsAtIgnoresPath(tbl, org, path) == {r \in tbl : r.org_id = org}

RowsAt(tbl, org, path) == {r \in tbl : r.org_id = org /\ r.path = path}

\* INSERT INTO metadata without the UNIQUE(org_id, path) constraint
MetadataCreateNoUnique(tbl, org, path, value) ==
    [ok |-> TRUE,
     tbl |-> tbl \cup {[org_id |-> org, path |-> path, value |-> value]}]

\* INSERT INTO metadata: fails on UNIQUE(org_id, path)
MetadataCreate(tbl, org, path, value) ==
    IF RowsAt(tbl, org, path) # {}
    THEN [ok |-> FALSE, tbl |-> tbl]
    ELSE [ok |-> TRUE,
          tbl |-> tbl \cup {[org_id |-> org, path |-> path, value |-> value]}]

MetadataUpdate(tbl, org, path, value) ==
    (tbl \ RowsAt(tbl, org, path))
        \cup {[r EXCEPT !.value = value] : r \in RowsAt(tbl, org, path)}

MetadataDelete(tbl, org, path) == tbl \ RowsAt(tbl, org, path)

(* ---------------------------- State Store ----------------------------- *)
BlobsOf(md, id) == {r.value : r \in RowsAt(md, TFStateOrg, StatePath(id))}
LocksOf(md, id) ==
    {UnmarshalLock(r.value) : r \in RowsAt(md, TFStateOrg, LockPath(id))}

\* the (blob, lock) pair of every state id
Abs(md) == [i \in StateIds |-> [blob |-> BlobsOf(md, i), lock |-> LocksOf(md, i)]]

StoreRead(md, id) ==
    IF BlobsOf(md, id) = {}
    THEN [out |-> "NotFound", val |-> NoBody]
    ELSE [out |-> "OK", val |-> CHOOSE v \in BlobsOf(md, id) : TRUE]

StoreWrite(md, id, bytes) ==
    IF BlobsOf(md, id) = {}
    THEN MetadataCreate(md, TFStateOrg, StatePath(id), bytes).tbl
    ELSE MetadataUpdate(md, TFStateOrg, StatePath(id), bytes)

StoreDelete(md, id) ==
    MetadataDelete(MetadataDelete(md, TFStateOrg, StatePath(id)),
                   TFStateOrg, LockPath(id))

StoreTryAcquireLock(md, id, lock) ==
    LET c == MetadataCreate(md, TFStateOrg, LockPath(id), MarshalLock(lock))
    IN  IF c.ok
        THEN [md |-> c.tbl, out |-> "Acquired", lock |-> lock]
        ELSE [md |-> md, out |-> "Conflict",
              lock |-> CHOOSE l \in LocksOf(md, id) : TRUE]

StoreReleaseLock(md, id, token) ==
    IF LocksOf(md, id) = {}
    THEN [md |-> md, out |-> "NotFound", lock |-> UnmarshalLock(NoBody)]
    ELSE LET ex == CHOOSE l \in LocksOf(md, id) : TRUE
         IN  IF ex["ID"] = token
             THEN [md |-> MetadataDelete(md, TFStateOrg, LockPath(id)),
                   out |-> "Released", lock |-> ex]
             ELSE [md |-> md, out |-> "Mismatch", lock |-> ex]

(* --------------------- Lock-Aware State Service ----------------------- *)
Response(kind, body) == [kind |-> kind, body |-> body]

\* Handler.writeError without the IsNotFound branch
WriteErrorStatusNoNotFound(kind) ==
    CASE kind = "AlreadyExists" -> 409
      [] kind = "InvalidInput" -> 400
      [] kind = "ForeignKeyViolation" -> 400
      [] kind = "Unauthorized" -> 401
      [] OTHER -> 500

\* Handler.writeError without the IsInvalidInput branch
WriteErrorStatusNoInvalidInput(kind) ==
    CASE kind = "NotFound" -> 404
      [] kind = "AlreadyExists" -> 409
      [] kind = "ForeignKeyViolation" -> 400
      [] kind = "Unauthorized" -> 401
      [] OTHER -> 500

\* Handler.writeError: the HTTP status of an error kind
WriteErrorStatus(kind) ==
    CASE kind = "NotFound" -> 404
      [] kind = "AlreadyExists" -> 409
      [] kind = "InvalidInput" -> 400
      [] kind = "ForeignKeyViolation" -> 400
      [] kind = "Unauthorized" -> 401
      [] OTHER -> 500

GetState(md, id) ==
    LET r == StoreRead(md, id)
    IN  [md |-> md, resp |-> Response(r.out, r.val)]

SetState(md, id, bytes) ==
    IF bytes = NoBody
    THEN [md |-> md, resp |-> Response("InvalidInput", NoBody)]
    ELSE [md |-> StoreWrite(md, id, bytes), resp |-> Response("OK", NoBody)]

DeleteState(md, id) ==
    [md |-> StoreDelete(md, id), resp |-> Response("OK", NoBody)]

AcquireLock(md, id, lock) ==
    IF lock["ID"] = ""
    THEN [md |-> md, resp |-> Response("InvalidInput", NoBody)]
    ELSE LET r == StoreTryAcquireLock(md, id, lock)
         IN  IF r.out = "Acquired"
             THEN [md |-> r.md, resp |-> Response("OK", MarshalLock(r.lock))]
             ELSE [md |-> r.md, resp |-> Response("Conflict", MarshalLock(r.lock))]

ReleaseLock(md, id, token) ==
    IF token = ""
    THEN [md |-> md, resp |-> Response("InvalidInput", NoBody)]
    ELSE LET r == StoreReleaseLock(md, id, token)
         IN  CASE r.out = "Released" -> [md |-> r.md, resp |-> Response("OK", NoBody)]
               [] r.out = "Mismatch" ->
                    [md |-> r.md, resp |-> Response("LockMismatch", MarshalLock(r.lock))]
               [] OTHER -> [md |-> r.md, resp |-> Response("NoLockHeld", NoBody)]

(* ------------------------------ router -------------------------------- *)
\* SetupRouter with UNLOCK registered on handler.TFStateLock
RouteUnlockAsLock(method) ==
    CASE method = "GET" -> "TFStateGet"
      [] method = "POST" -> "TFStatePost"
      [] method = "DELETE" -> "TFStateDelete"
      [] method = "LOCK" -> "TFStateLock"
      [] method = "UNLOCK" -> "TFStateLock"
      [] OTHER -> "MethodNotAllowed"

\* SetupRouter with DELETE registered on handler.TFStateGet
RouteDeleteAsGet(method) ==
    CASE method = "GET" -> "TFStateGet"
      [] method = "POST" -> "TFStatePost"
      [] method = "DELETE" -> "TFStateGet"
      [] method = "LOCK" -> "TFStateLock"
      [] method = "UNLOCK" -> "TFStateUnlock"
      [] OTHER -> "MethodNotAllowed"

\* SetupRouter with POST registered on handler.TFStateGet
RoutePostAsGet(method) ==
    CASE method = "GET" -> "TFStateGet"
      [] method = "POST" -> "TFStateGet"
      [] method = "DELETE" -> "TFStateDelete"
      [] method = "LOCK" -> "TFStateLock"
      [] method = "UNLOCK" -> "TFStateUnlock"
      [] OTHER -> "MethodNotAllowed"

\* SetupRouter without the LOCK route
RouteWithoutLock(method) ==
    CASE method = "GET" -> "TFStateGet"
      [] method = "POST" -> "TFStatePost"
      [] method = "DELETE" -> "TFStateDelete"
      [] method = "UNLOCK" -> "TFStateUnlock"
      [] OTHER -> "MethodNotAllowed"

\* SetupRouter with POST registered on handler.TFStateLock
RoutePostAsLock(method) ==
    CASE method = "GET" -> "TFStateGet"
      [] method = "POST" -> "TFStateLock"
      [] method = "DELETE" -> "TFStateDelete"
      [] method = "LOCK" -> "TFStateLock"
      [] method = "UNLOCK" -> "TFStateUnlock"
      [] OTHER -> "MethodNotAllowed"

\* SetupRouter with GET registered on handler.TFStateDelete
RouteGetAsDelete(method) ==
    CASE method = "GET" -> "TFStateDelete"
      [] method = "POST" -> "TFStatePost"
      [] method = "DELETE" -> "TFStateDelete"
      [] method = "LOCK" -> "TFStateLock"
      [] method = "UNLOCK" -> "TFStateUnlock"
      [] OTHER -> "MethodNotAllowed"

\* SetupRouter with UNLOCK registered on handler.TFStateDelete
RouteUnlockAsDelete(method) ==
    CASE method = "GET" -> "TFStateGet"
      [] method = "POST" -> "TFStatePost"
      [] method = "DELETE" -> "TFStateDelete"
      [] method = "LOCK" -> "TFStateLock"
      [] method = "UNLOCK" -> "TFStateDelete"
      [] OTHER -> "MethodNotAllowed"

\* SetupRouter: api.HandleFunc("/tfstate/{id}", handler.X).Methods(M)
Route(method) ==
    CASE method = "GET" -> "TFStateGet"
      [] method = "POST" -> "TFStatePost"
      [] method = "DELETE" -> "TFStateDelete"
      [] method = "LOCK" -> "TFStateLock"
      [] method = "UNLOCK" -> "TFStateUnlock"
      [] OTHER -> "MethodNotAllowed"

(* ----------------------------- handlers ------------------------------- *)
\* each handler as a function of the table and the request: the new table
\* and the answer
ServeLock(md, rq) ==
    LET d == DecodeJSON(rq.body)
    IN  IF ~d.ok
        THEN [md |-> md, resp |-> Response("InvalidInput", NoBody)]
        ELSE AcquireLock(md, rq.id, d.lock)

ServeUnlock(md, rq) ==
    LET d == DecodeJSON(rq.body)
    IN  IF ~d.ok
        THEN [md |-> md, resp |-> Response("InvalidInput", NoBody)]
        ELSE ReleaseLock(md, rq.id, d.lock["ID"])

\* what the handler registered for rq.method does to the table and answers
Serve(md, rq) ==
    CASE Route(rq.method) = "TFStateGet" -> GetState(md, rq.id)
      [] Route(rq.method) = "TFStatePost" -> SetState(md, rq.id, rq.body)
      [] Route(rq.method) = "TFStateDelete" -> DeleteState(md, rq.id)
      [] Route(rq.method) = "TFStateLock" -> ServeLock(md, rq)
      [] Route(rq.method) = "TFStateUnlock" -> ServeUnlock(md, rq)
      [] OTHER -> [md |-> md, resp |-> Response("MethodNotAllowed", NoBody)]

(* ------------------------------ clients ------------------------------- *)
\* the LockInfo a client sends: every member present, Who naming the client
ClientLock(c, t) == TFStateLockOf(t, ToString(c))

Request(m, i, b) == [method |-> m, id |-> i, body |-> b]

Requests(c) ==
    {Request(m, i, NoBody) : m \in {"GET", "DELETE"}, i \in StateIds}
    \cup {Request("POST", i, Bytes(b)) : i \in StateIds, b \in Blobs \cup {""}}
    \cup {Request("LOCK", i, b) :
            i \in StateIds,
            b \in {ClientLock(c, t) : t \in Tokens \cup {""}} \cup {Malformed, IllTyped}}
    \cup {Request("UNLOCK", i, b) :
            i \in StateIds,
            b \in {[ID |-> t] : t \in Tokens \cup {""}} \cup {Malformed}}

NoRequest == Request("", "", NoBody)
NoResponse == Response("", NoBody)
NoPre == [blob |-> {}, lock |-> {}, overlapped |-> FALSE]
EmptyDB ==
    [organizations |-> {}, api_keys |-> {}, projects |-> {}, instances |-> {},
     buckets |-> {}, objects |-> {}, ids |-> 0]

Init ==
    /\ metadata = {}
    /\ db = EmptyDB
    /\ pc = [c \in Clients |-> "idle"]
    /\ req = [c \in Clients |-> NoRequest]
    /\ resp = [c \in Clients |-> NoResponse]
    /\ pre = [c \in Clients |-> NoPre]
    /\ nops = 0

Send(c) ==
    /\ pc[c] \in {"idle", "done"}
    /\ nops < MaxOps
    /\ \E rq \in Requests(c) :
        /\ req' = [req EXCEPT ![c] = rq]
        /\ pc' = [pc EXCEPT ![c] = "pending"]
        /\ resp' = [resp EXCEPT ![c] = NoResponse]
        /\ pre' = [pre EXCEPT ![c] = NoPre]
    /\ nops' = nops + 1
    /\ UNCHANGED <<metadata, db>>

\* client c's pending request is answered with r.resp and the table becomes
\* r.md, in one step (one store call, atomic per state id)
Respond(c, r) ==
    /\ metadata' = r.md
    /\ resp' = [resp EXCEPT ![c] = r.resp]
    /\ pre' = [pre EXCEPT ![c] =
                [blob |-> BlobsOf(metadata, req[c].id),
                 lock |-> LocksOf(metadata, req[c].id),
                 overlapped |-> \E d \in DOMAIN pc \ {c} :
                                    pc[d] = "pending" /\ req[d].id = req[c].id]]
    /\ pc' = [pc EXCEPT ![c] = "done"]
    /\ UNCHANGED <<req, nops, db>>

TFStateGet(c) ==
    /\ pc[c] = "pending"
    /\ Route(req[c].method) = "TFStateGet"
    /\ Respond(c, GetState(metadata, req[c].id))

TFStatePost(c) ==
    /\ pc[c] = "pending"
    /\ Route(req[c].method) = "TFStatePost"
    /\ Respond(c, SetState(metadata, req[c].id, req[c].body))

TFStateDelete(c) ==
    /\ pc[c] = "pending"
    /\ Route(req[c].method) = "TFStateDelete"
    /\ Respond(c, DeleteState(metadata, req[c].id))

TFStateLock(c) ==
    /\ pc[c] = "pending"
    /\ Route(req[c].method) = "TFStateLock"
    /\ Respond(c, ServeLock(metadata, req[c]))

TFStateUnlock(c) ==
    /\ pc[c] = "pending"
    /\ Route(req[c].method) = "TFStateUnlock"
    /\ Respond(c, ServeUnlock(metadata, req[c]))

Next ==
    \E c \in Clients :
        \/ Send(c)
        \/ TFStateGet(c)
        \/ TFStatePost(c)
        \/ TFStateDelete(c)
        \/ TFStateLock(c)
        \/ TFStateUnlock(c)

Spec == Init /\ [][Next]_vars


(* ------------- the concurrent acquire race of section 8 --------------- *)
\* the tables in which state id i is unlocked: any blob for i, and every
\* other id in any (blob, lock) state
TablesUnlockedAt(i) ==
    LET Row(path, value) == [org_id |-> TFStateOrg, path |-> path, value |-> value]
        StateRows(j) == {{}} \cup {{Row(StatePath(j), Bytes(b))} : b \in Blobs}
        LockRows(j) ==
            IF j = i THEN {{}}
            ELSE {{}} \cup {{Row(LockPath(j), MarshalLock(ClientLock(1, t)))} : t \in Tokens}
        PerId(j) == {sr \cup lr : sr \in StateRows(j), lr \in LockRows(j)}
        Choices == {g \in [StateIds -> UNION {PerId(j) : j \in StateIds}] :
                        \A j \in StateIds : g[j] \in PerId(j)}
    IN  {UNION {g[j] : j \in StateIds} : g \in Choices}

RaceToken(c) == ToString(c)

\* every racer has sent LOCK on the same unlocked id, each with its own token
RaceInit ==
    /\ \E i \in StateIds :
        /\ metadata \in TablesUnlockedAt(i)
        /\ req = [c \in Racers |-> Request("LOCK", i, ClientLock(c, RaceToken(c)))]
    /\ pc = [c \in Racers |-> "pending"]
    /\ resp = [c \in Racers |-> NoResponse]
    /\ pre = [c \in Racers |-> NoPre]
    /\ nops = 0
    /\ db = EmptyDB

RaceNext == \E c \in Racers : TFStateLock(c)

SpecRace == RaceInit /\ [][RaceNext]_vars

(* ------------------- requests in flight, served fairly ---------------- *)
\* the tables in which state id "a" is in any (blob, lock) state and no other
\* id has a row
LiveTables ==
    {t \in UNION {TablesUnlockedAt(j) : j \in StateIds \ {"a"}} :
        \A r \in t : r.path \in {StatePath("a"), LockPath("a")}}

\* every client has a request in flight, any request on any id
LiveInit ==
    /\ metadata \in LiveTables
    /\ req \in {f \in [Clients -> UNION {Requests(c) : c \in Clients}] :
                    \A c \in Clients : f[c] \in Requests(c)}
    /\ pc = [c \in Clients |-> "pending"]
    /\ resp = [c \in Clients |-> NoResponse]
    /\ pre = [c \in Clients |-> NoPre]
    /\ nops = Cardinality(Clients)
    /\ db = EmptyDB

LiveNext ==
    \E c \in Clients :
        \/ TFStateGet(c)
        \/ TFStatePost(c)
        \/ TFStateDelete(c)
        \/ TFStateLock(c)
        \/ TFStateUnlock(c)

\* every request is served on its own goroutine, which the scheduler runs
\* as long as its handler can take its step
Fairness ==
    \A c \in Clients :
        WF_vars(\/ TFStateGet(c) \/ TFStatePost(c) \/ TFStateDelete(c)
                \/ TFStateLock(c) \/ TFStateUnlock(c))

SpecLive == LiveInit /\ [][LiveNext]_vars /\ Fairness

(* ------------------------------ the /v1 API --------------------------- *)
OrgSlugs == {"oa", "ob"}
ProjectSlugs == {"p"}

\* endec: a token is nah_<prefix>_<payload>; nah is FALSE for a string
\* ParseToken rejects
Token(prefix, payload) == [nah |-> TRUE, prefix |-> prefix, payload |-> payload]
Garbage == [nah |-> FALSE, prefix |-> "", payload |-> 0]
PrefixAPI == "api"
PrefixSession == "ses"

\* endec.ValidateToken returns no error
ValidateToken(token, expectedPrefix) ==
    token.nah /\ token.prefix = expectedPrefix

\* service.hashToken: SHA-256, taken to be injective
HashToken(token) == <<"sha256", token.prefix, token.payload>>

\* the Authorization header of a request
Header(scheme, token) == [present |-> TRUE, scheme |-> scheme, token |-> token]
NoHeader == [present |-> FALSE, scheme |-> "", token |-> Garbage]
ToLower(s) ==
    CASE s = "Bearer" -> "bearer"
      [] s = "Basic" -> "basic"
      [] OTHER -> s

\* the repositories' SELECTs, as the set of rows found
OrgGetByID(d, id) == {o \in d.organizations : o.id = id}
OrgGetBySlug(d, slug) == {o \in d.organizations : o.slug = slug}
APIKeyGetByID(d, id) == {k \in d.api_keys : k.id = id}
APIKeyGetByTokenHash(d, h) == {k \in d.api_keys : k.token_hash = h}
APIKeyListByOrgID(d, orgID) == {k \in d.api_keys : k.org_id = orgID}
ProjectGetBySlug(d, orgID, slug) ==
    {p \in d.projects : p.org_id = orgID /\ p.slug = slug}
ProjectList(d, orgID) == {p \in d.projects : p.org_id = orgID}

\* generateID: a random id, which no row has had
GenerateID(d) == d.ids + 1

\* validateSlug returns no error
ValidSlug(slug) == slug \in OrgSlugs \cup ProjectSlugs

\* Service.GetOrganizationByToken
GetOrganizationByToken(d, token) ==
    IF ~ValidateToken(token, PrefixAPI)
    THEN [err |-> "Unauthorized", org |-> {}]
    ELSE LET keys == APIKeyGetByTokenHash(d, HashToken(token))
         IN  IF keys = {}
             THEN [err |-> "Unauthorized", org |-> {}]
             ELSE LET orgs == OrgGetByID(d, (CHOOSE k \in keys : TRUE).org_id)
                  IN  IF orgs = {}
                      THEN [err |-> "NotFound", org |-> {}]
                      ELSE [err |-> "", org |-> orgs]

\* AuthMiddleware: status 0 calls the next handler with the organization in
\* the request context, another status is written and the handler is not
\* called
AuthMiddleware(d, header) ==
    IF ~header.present
    THEN [status |-> 401, org |-> {}]
    ELSE IF ToLower(header.scheme) # "bearer"
    THEN [status |-> 401, org |-> {}]
    ELSE LET r == GetOrganizationByToken(d, header.token)
         IN  IF r.err \in {"NotFound", "Unauthorized"}
             THEN [status |-> 401, org |-> {}]
             ELSE IF r.err # ""
             THEN [status |-> 500, org |-> {}]
             ELSE [status |-> 0, org |-> r.org]

\* the routes SetupRouter registers on authAPI: path, method, handler
AuthAPIRoutes ==
    {<<"/orgs", "GET", "ListOrganizations">>,
     <<"/orgs/{org}", "GET", "GetOrganization">>,
     <<"/orgs/{org}", "PATCH", "UpdateOrganization">>,
     <<"/orgs/{org}", "DELETE", "DeleteOrganization">>,
     <<"/orgs/{org}/api-keys", "POST", "CreateAPIKey">>,
     <<"/orgs/{org}/api-keys", "GET", "ListAPIKeys">>,
     <<"/orgs/{org}/api-keys/{key_id}", "DELETE", "DeleteAPIKey">>,
     <<"/orgs/{org}/projects", "POST", "CreateProject">>,
     <<"/orgs/{org}/projects", "GET", "ListProjects">>,
     <<"/orgs/{org}/projects/{project}", "GET", "GetProject">>,
     <<"/orgs/{org}/projects/{project}", "PATCH", "UpdateProject">>,
     <<"/orgs/{org}/projects/{project}", "DELETE", "DeleteProject">>,
     <<"/orgs/{org}/projects/{project}/instances", "POST", "CreateInstance">>,
     <<"/orgs/{org}/projects/{project}/instances", "GET", "ListInstances">>,
     <<"/orgs/{org}/projects/{project}/instances/{id}", "GET", "GetInstance">>,
     <<"/orgs/{org}/projects/{project}/instances/{id}", "PATCH", "UpdateInstance">>,
     <<"/orgs/{org}/projects/{project}/instances/{id}", "DELETE", "DeleteInstance">>,
     <<"/orgs/{org}/projects/{project}/buckets", "POST", "CreateBucket">>,
     <<"/orgs/{org}/projects/{project}/buckets", "GET", "ListBuckets">>,
     <<"/orgs/{org}/projects/{project}/buckets/{bucket}", "GET", "GetBucket">>,
     <<"/orgs/{org}/projects/{project}/buckets/{bucket}", "PATCH", "UpdateBucket">>,
     <<"/orgs/{org}/projects/{project}/buckets/{bucket}", "DELETE", "DeleteBucket">>,
     <<"/orgs/{org}/projects/{project}/buckets/{bucket}/objects", "POST", "CreateObject">>,
     <<"/orgs/{org}/projects/{project}/buckets/{bucket}/objects", "GET", "ListObjects">>,
     <<"/orgs/{org}/projects/{project}/buckets/{bucket}/objects/{id}", "GET", "GetObject">>,
     <<"/orgs/{org}/projects/{project}/buckets/{bucket}/objects/{id}", "PATCH", "UpdateObject">>,
     <<"/orgs/{org}/projects/{project}/buckets/{bucket}/objects/{id}", "DELETE", "DeleteObject">>,
     <<"/orgs/{org}/metadata", "POST", "CreateMetadata">>,
     <<"/orgs/{org}/metadata", "GET", "ListMetadata">>,
     <<"/orgs/{org}/metadata/{id}", "GET", "GetMetadata">>,
     <<"/orgs/{org}/metadata/{id}", "PATCH", "UpdateMetadata">>,
     <<"/orgs/{org}/metadata/{id}", "DELETE", "DeleteMetadata">>}

TFStateMethods == {"GET", "POST", "DELETE", "LOCK", "UNLOCK"}

\* SetupRouter: the routes under /v1; auth tells whether the route is
\* registered on authAPI, the subrouter that uses AuthMiddleware
Routes ==
    {[path |-> "/orgs", method |-> "POST", handler |-> "CreateOrganization",
      auth |-> FALSE]}
    \cup {[path |-> r[1], method |-> r[2], handler |-> r[3], auth |-> TRUE] :
            r \in AuthAPIRoutes}
    \cup {[path |-> "/tfstate/{id}", method |-> mt, handler |-> Route(mt),
           auth |-> FALSE] : mt \in TFStateMethods}

\* mux: the routes that match a request
Match(rq) == {r \in Routes : r.path = rq.path /\ r.method = rq.method}
HandlerOf(rq) == (CHOOSE r \in Match(rq) : TRUE).handler

\* Handler.resolveOrg without the comparison with the authenticated org
ResolveOrgNoCheck(d, rq) ==
    IF rq.org = ""
    THEN [err |-> "InvalidInput", org |-> {}]
    ELSE IF OrgGetBySlug(d, rq.org) = {}
    THEN [err |-> "NotFound", org |-> {}]
    ELSE [err |-> "", org |-> OrgGetBySlug(d, rq.org)]

\* Handler.resolveOrg
ResolveOrg(d, rq) ==
    IF rq.org = ""
    THEN [err |-> "InvalidInput", org |-> {}]
    ELSE IF OrgGetBySlug(d, rq.org) = {}
    THEN [err |-> "NotFound", org |-> {}]
    ELSE IF rq.ctx # {} /\ \A a \in rq.ctx : \A o \in OrgGetBySlug(d, rq.org) : a.id # o.id
    THEN [err |-> "Unauthorized", org |-> {}]
    ELSE [err |-> "", org |-> OrgGetBySlug(d, rq.org)]

\* Handler.resolveProject
ResolveProject(d, rq) ==
    LET o == ResolveOrg(d, rq)
    IN  IF o.err # ""
        THEN [err |-> o.err, project |-> {}]
        ELSE IF rq.project = ""
        THEN [err |-> "InvalidInput", project |-> {}]
        ELSE LET ps == ProjectGetBySlug(d, (CHOOSE x \in o.org : TRUE).id, rq.project)
             IN  IF ps = {}
                 THEN [err |-> "NotFound", project |-> {}]
                 ELSE [err |-> "", project |-> ps]

\* Service.createAPIKey: the new table, the key and its token
CreateAPIKeyRow(d, orgID, name) ==
    LET keyID == GenerateID(d)
        token == Token(PrefixAPI, keyID)
        key == [id |-> keyID, org_id |-> orgID, name |-> name,
                token_hash |-> HashToken(token)]
    IN  [db |-> [d EXCEPT !.api_keys = @ \cup {key}, !.ids = keyID],
         key |-> key, token |-> token]

\* Service.CreateOrganization
ServiceCreateOrganization(d, slug) ==
    IF ~ValidSlug(slug)
    THEN [err |-> "InvalidInput", db |-> d, rows |-> {}]
    ELSE IF OrgGetBySlug(d, slug) # {}
    THEN [err |-> "AlreadyExists", db |-> d, rows |-> {}]
    ELSE LET org == [id |-> GenerateID(d), slug |-> slug]
             d1 == [d EXCEPT !.organizations = @ \cup {org}, !.ids = org.id]
             k == CreateAPIKeyRow(d1, org.id, "default")
         IN  [err |-> "", db |-> k.db,
              rows |-> {org, [id |-> k.key.id, org_id |-> org.id,
                              name |-> k.key.name, token |-> k.token]}]

\* Service.CreateAPIKey
ServiceCreateAPIKey(d, orgID) ==
    IF OrgGetByID(d, orgID) = {}
    THEN [err |-> "NotFound", db |-> d, rows |-> {}]
    ELSE LET k == CreateAPIKeyRow(d, orgID, "unnamed")
         IN  [err |-> "", db |-> k.db,
              rows |-> {[id |-> k.key.id, org_id |-> orgID,
                         name |-> k.key.name, token |-> k.token]}]

\* Service.DeleteAPIKey
ServiceDeleteAPIKey(d, orgID, keyID) ==
    IF APIKeyGetByID(d, keyID) = {}
    THEN [err |-> "NotFound", db |-> d]
    ELSE IF \A k \in APIKeyGetByID(d, keyID) : k.org_id # orgID
    THEN [err |-> "NotFound", db |-> d]
    ELSE [err |-> "", db |-> [d EXCEPT !.api_keys = @ \ APIKeyGetByID(d, keyID)]]

\* Service.CreateProject
ServiceCreateProject(d, orgID, slug) ==
    IF ~ValidSlug(slug)
    THEN [err |-> "InvalidInput", db |-> d, rows |-> {}]
    ELSE IF OrgGetByID(d, orgID) = {}
    THEN [err |-> "ForeignKeyViolation", db |-> d, rows |-> {}]
    ELSE IF ProjectGetBySlug(d, orgID, slug) # {}
    THEN [err |-> "AlreadyExists", db |-> d, rows |-> {}]
    ELSE LET p == [id |-> GenerateID(d), org_id |-> orgID, slug |-> slug]
         IN  [err |-> "", db |-> [d EXCEPT !.projects = @ \cup {p}, !.ids = p.id],
              rows |-> {p}]

\* what a handler writes: writeJSON(status, rows) or writeError(err)
APIResponse(status, rows) == [kind |-> "OK", status |-> status, rows |-> rows]
APIError(err) == [kind |-> err, status |-> WriteErrorStatus(err), rows |-> {}]
AuthError(status) ==
    [kind |-> IF status = 401 THEN "Unauthorized" ELSE "Internal",
     status |-> status, rows |-> {}]

\* the requests a client sends
APIRequest(method, path, org, auth) ==
    [method |-> method, path |-> path, org |-> org, project |-> "", key_id |-> 0,
     slug |-> "", auth |-> auth, ctx |-> {}, id |-> "", body |-> NoBody]

\* the Authorization headers tried: none, another scheme, a string that is no
\* token, a session token, and API tokens whose payload is that of a key,
\* stored or deleted, or of no key
Headers(d) ==
    {NoHeader, Header("Bearer", Garbage),
     Header("Basic", Token(PrefixAPI, 2)), Header("Bearer", Token(PrefixSession, 2))}
    \cup {Header("Bearer", Token(PrefixAPI, n)) : n \in 0..d.ids}

APIRequests(d) ==
    {[APIRequest("POST", "/orgs", "", NoHeader) EXCEPT !.slug = s] :
        s \in OrgSlugs \cup {""}}
    \cup {APIRequest(r[1], r[2], o, h) :
            r \in {<<"GET", "/orgs/{org}">>, <<"POST", "/orgs/{org}/api-keys">>,
                   <<"GET", "/orgs/{org}/api-keys">>,
                   <<"GET", "/orgs/{org}/projects">>},
            o \in OrgSlugs, h \in Headers(d)}
    \cup {[APIRequest("DELETE", "/orgs/{org}/api-keys/{key_id}", o, h)
                EXCEPT !.key_id = k.id] :
            o \in OrgSlugs, h \in Headers(d), k \in d.api_keys}
    \cup {[APIRequest("POST", "/orgs/{org}/projects", o, h) EXCEPT !.slug = s] :
            o \in OrgSlugs, h \in Headers(d), s \in ProjectSlugs}
    \cup {[APIRequest("GET", "/orgs/{org}/projects/{project}", o, h)
                EXCEPT !.project = s] :
            o \in OrgSlugs, h \in Headers(d), s \in ProjectSlugs}
    \cup {[APIRequest(mt, "/tfstate/{id}", "", h)
                EXCEPT !.id = "a",
                       !.body = CASE mt = "POST" -> Bytes("b1")
                                  [] mt \in {"LOCK", "UNLOCK"} -> TFStateLockOf("t1", "tf")
                                  [] OTHER -> NoBody] :
            mt \in TFStateMethods, h \in Headers(d)}

APIClients == {1}

APIInit ==
    /\ metadata = {}
    /\ db = EmptyDB
    /\ pc = [c \in APIClients |-> "idle"]
    /\ req = [c \in APIClients |-> NoRequest]
    /\ resp = [c \in APIClients |-> NoResponse]
    /\ pre = [c \in APIClients |-> NoPre]
    /\ nops = 0

APISend(c) ==
    /\ pc[c] \in {"idle", "done"}
    /\ nops < MaxCalls
    /\ \E rq \in APIRequests(db) :
        /\ req' = [req EXCEPT ![c] = rq]
        /\ pc' = [pc EXCEPT ![c] = "received"]
        /\ resp' = [resp EXCEPT ![c] = NoResponse]
    /\ nops' = nops + 1
    /\ UNCHANGED <<metadata, db, pre>>

\* mux.Router.ServeHTTP: the route is matched and, on authAPI, AuthMiddleware
\* runs; the handler is called next ("authed", or "pending" for a Terraform
\* state handler) unless the middleware has written the answer
ServeHTTP(c) ==
    /\ pc[c] = "received"
    /\ \E r \in Match(req[c]) :
        LET a == IF r.auth THEN AuthMiddleware(db, req[c].auth)
                 ELSE [status |-> 0, org |-> {}]
        IN  IF a.status # 0
            THEN /\ pc' = [pc EXCEPT ![c] = "done"]
                 /\ resp' = [resp EXCEPT ![c] = AuthError(a.status)]
                 /\ UNCHANGED req
            ELSE /\ pc' = [pc EXCEPT ![c] =
                            IF r.path = "/tfstate/{id}" THEN "pending" ELSE "authed"]
                 /\ req' = [req EXCEPT ![c].ctx = a.org]
                 /\ UNCHANGED resp
    /\ UNCHANGED <<metadata, db, pre, nops>>

\* the handler of client c's request writes r and leaves the tables as d
APIRespond(c, d, r) ==
    /\ db' = d
    /\ resp' = [resp EXCEPT ![c] = r]
    /\ pc' = [pc EXCEPT ![c] = "done"]
    /\ UNCHANGED <<metadata, req, pre, nops>>

CreateOrganization(c) ==
    /\ pc[c] = "authed"
    /\ HandlerOf(req[c]) = "CreateOrganization"
    /\ LET r == ServiceCreateOrganization(db, req[c].slug)
       IN  IF r.err # "" THEN APIRespond(c, db, APIError(r.err))
           ELSE APIRespond(c, r.db, APIResponse(201, r.rows))

GetOrganization(c) ==
    /\ pc[c] = "authed"
    /\ HandlerOf(req[c]) = "GetOrganization"
    /\ LET o == ResolveOrg(db, req[c])
       IN  IF o.err # "" THEN APIRespond(c, db, APIError(o.err))
           ELSE APIRespond(c, db, APIResponse(200, o.org))

CreateAPIKey(c) ==
    /\ pc[c] = "authed"
    /\ HandlerOf(req[c]) = "CreateAPIKey"
    /\ LET o == ResolveOrg(db, req[c])
       IN  IF o.err # "" THEN APIRespond(c, db, APIError(o.err))
           ELSE LET r == ServiceCreateAPIKey(db, (CHOOSE x \in o.org : TRUE).id)
                IN  IF r.err # "" THEN APIRespond(c, db, APIError(r.err))
                    ELSE APIRespond(c, r.db, APIResponse(201, r.rows))

ListAPIKeys(c) ==
    /\ pc[c] = "authed"
    /\ HandlerOf(req[c]) = "ListAPIKeys"
    /\ LET o == ResolveOrg(db, req[c])
       IN  IF o.err # "" THEN APIRespond(c, db, APIError(o.err))
           ELSE APIRespond(c, db,
                    APIResponse(200, APIKeyListByOrgID(db, (CHOOSE x \in o.org : TRUE).id)))

DeleteAPIKey(c) ==
    /\ pc[c] = "authed"
    /\ HandlerOf(req[c]) = "DeleteAPIKey"
    /\ LET o == ResolveOrg(db, req[c])
       IN  IF o.err # "" THEN APIRespond(c, db, APIError(o.err))
           ELSE LET r == ServiceDeleteAPIKey(db, (CHOOSE x \in o.org : TRUE).id,
                                             req[c].key_id)
                IN  IF r.err # "" THEN APIRespond(c, db, APIError(r.err))
                    ELSE APIRespond(c, r.db, APIResponse(204, {}))

CreateProject(c) ==
    /\ pc[c] = "authed"
    /\ HandlerOf(req[c]) = "CreateProject"
    /\ LET o == ResolveOrg(db, req[c])
       IN  IF o.err # "" THEN APIRespond(c, db, APIError(o.err))
           ELSE LET r == ServiceCreateProject(db, (CHOOSE x \in o.org : TRUE).id,
                                              req[c].slug)
                IN  IF r.err # "" THEN APIRespond(c, db, APIError(r.err))
                    ELSE APIRespond(c, r.db, APIResponse(201, r.rows))

ListProjects(c) ==
    /\ pc[c] = "authed"
    /\ HandlerOf(req[c]) = "ListProjects"
    /\ LET o == ResolveOrg(db, req[c])
       IN  IF o.err # "" THEN APIRespond(c, db, APIError(o.err))
           ELSE APIRespond(c, db,
                    APIResponse(200, ProjectList(db, (CHOOSE x \in o.org : TRUE).id)))

GetProject(c) ==
    /\ pc[c] = "authed"
    /\ HandlerOf(req[c]) = "GetProject"
    /\ LET p == ResolveProject(db, req[c])
       IN  IF p.err # "" THEN APIRespond(c, db, APIError(p.err))
           ELSE APIRespond(c, db, APIResponse(200, p.project))

APINext ==
    \E c \in APIClients :
        \/ APISend(c)
        \/ ServeHTTP(c)
        \/ CreateOrganization(c)
        \/ GetOrganization(c)
        \/ CreateAPIKey(c)
        \/ ListAPIKeys(c)
        \/ DeleteAPIKey(c)
        \/ CreateProject(c)
        \/ ListProjects(c)
        \/ GetProject(c)
        \/ TFStateGet(c)
        \/ TFStatePost(c)
        \/ TFStateDelete(c)
        \/ TFStateLock(c)
        \/ TFStateUnlock(c)

SpecAPI == APIInit /\ [][APINext]_vars

(* ------------------------------ endec tokens -------------------------- *)
\* A string is the sequence of its characters, a []byte the sequence of its
\* bytes.
MaxPayload == 2
ByteValues == {0, 1, 31, 32, 255}
Payloads == UNION {[1..n -> ByteValues] : n \in 0..MaxPayload}
Str3(a, b, c) == <<a, b, c>>
\* the prefixes of the package, and 3-character strings that are none of them
TokenPrefixes ==
    {Str3("s", "e", "s"), Str3("a", "p", "i"), Str3("r", "e", "f"),
     Str3("i", "n", "v"), Str3("r", "s", "t"), Str3("v", "f", "y"),
     Str3("w", "h", "k"), Str3("a", "_", "b"), Str3("_", "a", "b")}

\* customAlphabet: the character of each base-32 digit 0..31
CustomAlphabet ==
    <<"2", "5", "7", "8", "9", "b", "c", "d", "f", "h", "j", "m", "p", "r", "s",
      "t", "w", "z", "B", "C", "D", "F", "H", "J", "L", "M", "P", "R", "S", "T",
      "W", "Z">>

\* big.Int.SetBytes: the big-endian value of the bytes
RECURSIVE SetBytes(_)
SetBytes(data) ==
    IF data = <<>> THEN 0
    ELSE SetBytes(SubSeq(data, 1, Len(data) - 1)) * 256 + data[Len(data)]

\* big.Int.Bytes: the big-endian bytes of n, none for 0
RECURSIVE BigBytes(_)
BigBytes(n) == IF n = 0 THEN <<>> ELSE Append(BigBytes(n \div 256), n % 256)

\* big.Int.Text(32): the base-32 digits of n, one digit 0 for 0
RECURSIVE Text32(_)
Text32(n) == IF n < 32 THEN <<n>> ELSE Append(Text32(n \div 32), n % 32)

\* big.Int.SetString(s, 32) on the digits
RECURSIVE SetString32(_)
SetString32(ds) ==
    IF ds = <<>> THEN 0
    ELSE SetString32(SubSeq(ds, 1, Len(ds) - 1)) * 32 + ds[Len(ds)]

\* endec.Encode
Encode(data) ==
    IF Len(data) = 0 THEN <<>>
    ELSE LET std == Text32(SetBytes(data))
         IN  [i \in 1..Len(std) |-> CustomAlphabet[std[i] + 1]]

\* endec.Decode
Decode(s) ==
    IF Len(s) = 0 THEN [ok |-> TRUE, data |-> <<>>]
    ELSE IF \E i \in 1..Len(s) : \A d \in 1..32 : CustomAlphabet[d] # s[i]
    THEN [ok |-> FALSE, data |-> <<>>]
    ELSE LET std == [i \in 1..Len(s) |->
                        (CHOOSE d \in 1..32 : CustomAlphabet[d] = s[i]) - 1]
         IN  [ok |-> TRUE, data |-> BigBytes(SetString32(std))]

Nah == <<"n", "a", "h", "_">>

\* endec.CreateTokenFromData
CreateTokenFromData(prefix, data) ==
    IF Len(prefix) # 3 THEN [ok |-> FALSE, token |-> <<>>]
    ELSE [ok |-> TRUE, token |-> Nah \o prefix \o <<"_">> \o Encode(data)]

\* strings.SplitN(s, "_", 2)
SplitN2(s) ==
    IF \A i \in 1..Len(s) : s[i] # "_" THEN <<s>>
    ELSE LET i == CHOOSE j \in 1..Len(s) :
                    s[j] = "_" /\ \A k \in 1..(j - 1) : s[k] # "_"
         IN  <<SubSeq(s, 1, i - 1), SubSeq(s, i + 1, Len(s))>>

ParseError == [ok |-> FALSE, prefix |-> <<>>, data |-> <<>>]

\* endec.ParseToken
ParseToken(token) ==
    IF Len(token) < 4 \/ SubSeq(token, 1, 4) # Nah THEN ParseError
    ELSE LET parts == SplitN2(SubSeq(token, 5, Len(token)))
         IN  IF Len(parts) # 2 THEN ParseError
             ELSE IF Len(parts[1]) # 3 THEN ParseError
             ELSE LET d == Decode(parts[2])
                  IN  IF ~d.ok THEN ParseError
                      ELSE [ok |-> TRUE, prefix |-> parts[1], data |-> d.data]

TokenInput(prefix, data, n) == [prefix |-> prefix, data |-> data, n |-> n]

\* a prefix and a payload are chosen, or a prefix and a payload length
TokenInit ==
    /\ metadata = {}
    /\ db = EmptyDB
    /\ pc = "idle"
    /\ \E p \in TokenPrefixes, data \in Payloads :
        req = TokenInput(p, data, Len(data))
    /\ resp = NoResponse
    /\ pre = NoPre
    /\ nops = 0

\* endec.CreateTokenFromData is called on the input
TokCreateFromData ==
    /\ pc = "idle"
    /\ pc' = "created"
    /\ resp' = CreateTokenFromData(req.prefix, req.data)
    /\ pre' = "CreateTokenFromData"
    /\ UNCHANGED <<metadata, db, req, nops>>

\* endec.CreateToken is called with the input's prefix and length:
\* rand.Read fills the payload with any bytes
TokCreate ==
    /\ pc = "idle"
    /\ pc' = "created"
    /\ IF Len(req.prefix) # 3 \/ req.n <= 0
       THEN resp' = [ok |-> FALSE, token |-> <<>>]
       ELSE \E payload \in [1..req.n -> ByteValues] :
                resp' = [ok |-> TRUE,
                         token |-> Nah \o req.prefix \o <<"_">> \o Encode(payload)]
    /\ pre' = "CreateToken"
    /\ UNCHANGED <<metadata, db, req, nops>>

\* endec.ParseToken is called on the token created
TokParse ==
    /\ pc = "created"
    /\ resp.ok
    /\ pc' = "parsed"
    /\ resp' = [ok |-> TRUE, token |-> resp.token, parsed |-> ParseToken(resp.token)]
    /\ UNCHANGED <<metadata, db, req, pre, nops>>

TokenNext == TokCreateFromData \/ TokCreate \/ TokParse

SpecToken == TokenInit /\ [][TokenNext]_vars

(* ---------------- the service over the tables of initSchema ----------- *)
\* Service operations called by concurrent requests, one SQL statement a
\* step: no operation runs in a transaction.
MaxSvcOps == 5
Workers == {1, 2}

\* the parent table and the referencing column of each table's FOREIGN KEY
Parent ==
    [api_keys |-> [tbl |-> "organizations", col |-> "org_id"],
     projects |-> [tbl |-> "organizations", col |-> "org_id"],
     instances |-> [tbl |-> "projects", col |-> "project_id"],
     buckets |-> [tbl |-> "projects", col |-> "project_id"],
     objects |-> [tbl |-> "buckets", col |-> "bucket_id"]]

\* the columns of each table's UNIQUE constraint
UniqueCols ==
    [organizations |-> {"slug"}, api_keys |-> {"token_hash"},
     projects |-> {"org_id", "slug"}, instances |-> {"project_id", "name"},
     buckets |-> {"project_id", "name"}, objects |-> {"bucket_id", "path"}]

\* the rows of tbl whose parent row is in the tables d
Kept(d, tbl) ==
    {r \in d[tbl] : \E p \in d[Parent[tbl].tbl] : p.id = r[Parent[tbl].col]}

\* ON DELETE CASCADE: the rows whose parent row is gone go with it
Cascade(d) ==
    LET d1 == [d EXCEPT !.api_keys = Kept(d, "api_keys"),
                        !.projects = Kept(d, "projects")]
        d2 == [d1 EXCEPT !.instances = Kept(d1, "instances"),
                         !.buckets = Kept(d1, "buckets")]
    IN  [d2 EXCEPT !.objects = Kept(d2, "objects")]

\* DELETE FROM tbl WHERE id = ?
DeleteRow(d, tbl, id) == Cascade([d EXCEPT ![tbl] = {r \in @ : r.id # id}])

\* InsertFails with the foreign keys not enforced (PRAGMA foreign_keys off)
InsertFailsNoForeignKey(d, tbl, row) ==
    IF \E r \in d[tbl] : r.id = row.id THEN "PRIMARY KEY"
    ELSE IF \E r \in d[tbl] : \A col \in UniqueCols[tbl] : r[col] = row[col]
    THEN "UNIQUE"
    ELSE ""

\* the constraint an INSERT of row into tbl fails on, "" when it succeeds
InsertFails(d, tbl, row) ==
    IF \E r \in d[tbl] : r.id = row.id THEN "PRIMARY KEY"
    ELSE IF \E r \in d[tbl] : \A col \in UniqueCols[tbl] : r[col] = row[col]
    THEN "UNIQUE"
    ELSE IF tbl # "organizations"
            /\ \A p \in d[Parent[tbl].tbl] : p.id # row[Parent[tbl].col]
    THEN "FOREIGN KEY"
    ELSE ""

\* a repository's Create: the INSERT, and the error kind its failure is
\* turned into by OrganizationRepository, APIKeyRepository and
\* ProjectRepository
RepoCreate(d, tbl, row) ==
    LET c == InsertFails(d, tbl, row)
    IN  [err |-> CASE c = "" -> ""
                   [] tbl = "api_keys" -> "Internal"
                   [] c = "UNIQUE" -> "AlreadyExists"
                   [] c = "PRIMARY KEY" /\ tbl = "organizations" -> "AlreadyExists"
                   [] c = "FOREIGN KEY" -> "ForeignKeyViolation"
                   [] OTHER -> "Internal",
         db |-> IF c = "" THEN [d EXCEPT ![tbl] = @ \cup {row}] ELSE d]

\* Create of the instance, bucket and object repositories, whose files are
\* not among the sources: the INSERT into the table of initSchema, its
\* failure turned into an error kind as ProjectRepository.Create does
ChildRepoCreate(d, tbl, row) == RepoCreate(d, tbl, row)

\* a call of the service: the operation, the id it names (the parent of a
\* row to create, the row to delete), the bucket it names and its argument
TheInstance ==
    [name |-> "i", region |-> "us-east-1", cpu |-> 1, memory_mb |-> 1,
     image |-> "img1", status |-> "running"]
SvcRequest(op, id, arg) ==
    [op |-> op, id |-> id, bucket |-> "", arg |-> arg, inst |-> TheInstance]
NoLocals == [id |-> 0, err |-> ""]
NoResult == [err |-> "", at |-> ""]

\* the limits of validateInstanceSpecs
MaxCPU == 64
MaxMemoryMB == 524288
ValidRegions ==
    {"us-east-1", "us-west-1", "eu-west-1", "eu-central-1", "ap-east-1"}
\* the names tried that have a character outside [a-zA-Z0-9_-]
OtherCharNames == {"a/b"}

\* validateInstanceName and validateBucketName return no error (the names
\* tried are shorter than 255 characters)
ValidName(name) == name # "" /\ name \notin OtherCharNames

\* validateInstanceSpecs without its upper limits
validateInstanceSpecsNoMax(cpu, memoryMB, image) ==
    cpu > 0 /\ memoryMB > 0 /\ image # ""

\* validateInstanceSpecs returns no error (the images tried are shorter
\* than 255 characters)
validateInstanceSpecs(cpu, memoryMB, image) ==
    /\ ~(cpu <= 0) /\ ~(cpu > MaxCPU)
    /\ ~(memoryMB <= 0) /\ ~(memoryMB > MaxMemoryMB)
    /\ image # ""

\* validateInstanceStatus returns no error
validateInstanceStatus(status) == status \in {"running", "stopped"}

\* validateInstanceRegion returns no error
validateInstanceRegion(region) == region # "" /\ region \in ValidRegions

\* a pointer field of an update request: the empty set is nil
Deref(p) == CHOOSE x \in p : TRUE

\* the calls tried on the tables d: the rows named are stored ones, or the
\* id 0 and the bucket "ghost" that no row has
SvcCalls(d) ==
    {SvcRequest("CreateOrganization", 0, s) : s \in {"oa", ""}}
    \cup {SvcRequest("DeleteOrganization", o.id, "") : o \in d.organizations}
    \cup {SvcRequest("CreateProject", i, "p") :
            i \in {0} \cup {o.id : o \in d.organizations}}
    \cup {SvcRequest("DeleteProject", p.id, "") : p \in d.projects}
    \cup {SvcRequest(op, i, "n") :
            op \in {"CreateInstance", "CreateBucket"},
            i \in {0} \cup {p.id : p \in d.projects}}
    \cup {[SvcRequest("CreateObject", 0, "k") EXCEPT !.bucket = b] :
            b \in {"ghost"} \cup {x.id : x \in d.buckets}}

SvcInit ==
    /\ metadata = {}
    /\ db = EmptyDB
    /\ pc = [w \in Workers |-> "idle"]
    /\ req = [w \in Workers |-> SvcRequest("", 0, "")]
    /\ resp = [w \in Workers |-> NoResult]
    /\ pre = [w \in Workers |-> NoLocals]
    /\ nops = 0

\* worker w starts one of calls, while fewer than max were started
CallOf(w, calls, max) ==
    /\ pc[w] \in {"idle", "done"}
    /\ nops < max
    /\ \E rq \in calls : req' = [req EXCEPT ![w] = rq]
    /\ pc' = [pc EXCEPT ![w] = "s1"]
    /\ resp' = [resp EXCEPT ![w] = NoResult]
    /\ pre' = [pre EXCEPT ![w] = NoLocals]
    /\ nops' = nops + 1
    /\ UNCHANGED <<metadata, db>>

SvcCall(w) == CallOf(w, SvcCalls(db), MaxSvcOps)

\* worker w's call returns err, at the statement it is at, and leaves the
\* tables as d
SvcReturn(w, d, err) ==
    /\ db' = d
    /\ resp' = [resp EXCEPT ![w] = [err |-> err, at |-> pc[w]]]
    /\ pc' = [pc EXCEPT ![w] = "done"]
    /\ UNCHANGED <<metadata, req, pre, nops>>

\* worker w's call goes on to statement label with the tables as d
SvcGoto(w, d, label, locals) ==
    /\ db' = d
    /\ pc' = [pc EXCEPT ![w] = label]
    /\ pre' = [pre EXCEPT ![w] = locals]
    /\ UNCHANGED <<metadata, req, resp, nops>>

\* OrganizationRepository.Delete(id), statement n of its three: GetByID,
\* SELECT COUNT(*) FROM projects, DELETE; the caller returns result[e] when
\* Delete returns e
OrgRepoDelete(w, n, id, next, result) ==
    CASE n = 1 ->
            IF OrgGetByID(db, id) = {} THEN SvcReturn(w, db, result["NotFound"])
            ELSE SvcGoto(w, db, next, pre[w])
      [] n = 2 ->
            IF ProjectList(db, id) # {} THEN SvcReturn(w, db, result["InvalidInput"])
            ELSE SvcGoto(w, db, next, pre[w])
      [] OTHER -> SvcReturn(w, DeleteRow(db, "organizations", id), result[""])

\* Service.CreateOrganization: s1 validateSlug and orgRepo.Create, s2
\* createAPIKey, which may fail (generateID, CreateToken or the INSERT),
\* s3 to s5 the rollback s.orgRepo.Delete(orgID), whose error is dropped
SvcCreateOrganization(w) ==
    /\ req[w].op = "CreateOrganization"
    /\ \/ /\ pc[w] = "s1"
          /\ IF ~ValidSlug(req[w].arg) THEN SvcReturn(w, db, "InvalidInput")
             ELSE LET id == GenerateID(db)
                      c == RepoCreate([db EXCEPT !.ids = id], "organizations",
                                      [id |-> id, slug |-> req[w].arg])
                  IN  IF c.err # "" THEN SvcReturn(w, c.db, c.err)
                      ELSE SvcGoto(w, c.db, "s2", [id |-> id, err |-> ""])
       \/ /\ pc[w] = "s2"
          /\ \/ SvcGoto(w, db, "s3", [pre[w] EXCEPT !.err = "Internal"])
             \/ LET k == CreateAPIKeyRow(db, pre[w].id, "default")
                    c == RepoCreate([db EXCEPT !.ids = k.key.id], "api_keys", k.key)
                IN  IF c.err # "" THEN SvcGoto(w, c.db, "s3", [pre[w] EXCEPT !.err = c.err])
                    ELSE SvcReturn(w, c.db, "")
       \/ /\ pc[w] \in {"s3", "s4", "s5"}
          /\ OrgRepoDelete(w, CASE pc[w] = "s3" -> 1 [] pc[w] = "s4" -> 2 [] OTHER -> 3,
                           pre[w].id, IF pc[w] = "s3" THEN "s4" ELSE "s5",
                           [e \in {"", "NotFound", "InvalidInput"} |-> pre[w].err])

\* Service.DeleteOrganization: the statements of orgRepo.Delete(id)
SvcDeleteOrganization(w) ==
    /\ req[w].op = "DeleteOrganization"
    /\ pc[w] \in {"s1", "s2", "s3"}
    /\ OrgRepoDelete(w, CASE pc[w] = "s1" -> 1 [] pc[w] = "s2" -> 2 [] OTHER -> 3,
                     req[w].id, IF pc[w] = "s1" THEN "s2" ELSE "s3",
                     [e \in {"", "NotFound", "InvalidInput"} |-> e])

\* Service.CreateProject: s1 validateSlug and orgRepo.GetByID, s2
\* generateID and projectRepo.Create
SvcCreateProject(w) ==
    /\ req[w].op = "CreateProject"
    /\ \/ /\ pc[w] = "s1"
          /\ IF ~ValidSlug(req[w].arg) THEN SvcReturn(w, db, "InvalidInput")
             ELSE IF OrgGetByID(db, req[w].id) = {}
             THEN SvcReturn(w, db, "ForeignKeyViolation")
             ELSE SvcGoto(w, db, "s2", pre[w])
       \/ /\ pc[w] = "s2"
          /\ LET id == GenerateID(db)
                 c == RepoCreate([db EXCEPT !.ids = id], "projects",
                                 [id |-> id, org_id |-> req[w].id, slug |-> req[w].arg])
             IN  SvcReturn(w, c.db, c.err)

\* Service.DeleteProject, the statements of ProjectRepository.Delete: s1
\* GetByID, s2 SELECT COUNT(*) FROM instances, s3 SELECT COUNT(*) FROM
\* buckets, s4 DELETE
SvcDeleteProject(w) ==
    /\ req[w].op = "DeleteProject"
    /\ \/ /\ pc[w] = "s1"
          /\ IF \A p \in db.projects : p.id # req[w].id
             THEN SvcReturn(w, db, "NotFound")
             ELSE SvcGoto(w, db, "s2", pre[w])
       \/ /\ pc[w] = "s2"
          /\ IF \E i \in db.instances : i.project_id = req[w].id
             THEN SvcReturn(w, db, "InvalidInput")
             ELSE SvcGoto(w, db, "s3", pre[w])
       \/ /\ pc[w] = "s3"
          /\ IF \E b \in db.buckets : b.project_id = req[w].id
             THEN SvcReturn(w, db, "InvalidInput")
             ELSE SvcGoto(w, db, "s4", pre[w])
       \/ /\ pc[w] = "s4"
          /\ SvcReturn(w, DeleteRow(db, "projects", req[w].id), "")

\* the status Service.CreateInstance stores: running when none is given
StatusOf(inst) == IF inst.status = "" THEN "running" ELSE inst.status

\* Service.CreateInstance: s1 the validations and projectRepo.GetByID, s2
\* generateID and instanceRepo.Create
SvcCreateInstance(w) ==
    /\ req[w].op = "CreateInstance"
    /\ LET inst == req[w].inst IN
       \/ /\ pc[w] = "s1"
          /\ IF \/ ~ValidName(inst.name)
                \/ ~validateInstanceRegion(inst.region)
                \/ ~validateInstanceSpecs(inst.cpu, inst.memory_mb, inst.image)
                \/ ~validateInstanceStatus(StatusOf(inst))
             THEN SvcReturn(w, db, "InvalidInput")
             ELSE IF \A p \in db.projects : p.id # req[w].id
             THEN SvcReturn(w, db, "ForeignKeyViolation")
             ELSE SvcGoto(w, db, "s2", pre[w])
       \/ /\ pc[w] = "s2"
          /\ LET id == GenerateID(db)
                 c == ChildRepoCreate([db EXCEPT !.ids = id], "instances",
                                 [id |-> id, project_id |-> req[w].id]
                                 @@ [inst EXCEPT !.status = StatusOf(inst)])
             IN  SvcReturn(w, c.db, c.err)

\* BucketRow with an ID that is not the name
BucketRowOtherID(projectID, name) ==
    [id |-> "x", project_id |-> projectID, name |-> name]

\* the bucket Service.CreateBucket stores: its ID is its name
BucketRow(projectID, name) ==
    [id |-> name, project_id |-> projectID, name |-> name]

\* Service.CreateBucket: s1 validateBucketName and projectRepo.GetByID, s2
\* bucketRepo.Create of the bucket whose ID is its name
SvcCreateBucket(w) ==
    /\ req[w].op = "CreateBucket"
    /\ \/ /\ pc[w] = "s1"
          /\ IF ~ValidName(req[w].arg) THEN SvcReturn(w, db, "InvalidInput")
             ELSE IF \A p \in db.projects : p.id # req[w].id
             THEN SvcReturn(w, db, "ForeignKeyViolation")
             ELSE SvcGoto(w, db, "s2", pre[w])
       \/ /\ pc[w] = "s2"
          /\ LET c == ChildRepoCreate(db, "buckets",
                                     BucketRow(req[w].id, req[w].arg))
             IN  SvcReturn(w, c.db, c.err)

\* Service.CreateObject: s1 the validations and bucketRepo.GetByID, s2
\* objectRepo.Create
SvcCreateObject(w) ==
    /\ req[w].op = "CreateObject"
    /\ \/ /\ pc[w] = "s1"
          /\ IF \A b \in db.buckets : b.id # req[w].bucket
             THEN SvcReturn(w, db, "ForeignKeyViolation")
             ELSE SvcGoto(w, db, "s2", pre[w])
       \/ /\ pc[w] = "s2"
          /\ LET id == GenerateID(db)
                 c == ChildRepoCreate([db EXCEPT !.ids = id], "objects",
                                 [id |-> id, bucket_id |-> req[w].bucket,
                                  path |-> req[w].arg, content |-> "x"])
             IN  SvcReturn(w, c.db, c.err)

SvcNext ==
    \E w \in Workers :
        \/ SvcCall(w)
        \/ SvcCreateOrganization(w)
        \/ SvcDeleteOrganization(w)
        \/ SvcCreateProject(w)
        \/ SvcDeleteProject(w)
        \/ SvcCreateInstance(w)
        \/ SvcCreateBucket(w)
        \/ SvcCreateObject(w)

SpecSvc == SvcInit /\ [][SvcNext]_vars


(* ---------------- instances and buckets of stored projects ------------ *)
\* CreateInstance, UpdateInstance, CreateBucket and UpdateBucket called by
\* concurrent requests on the tables that hold an organization, its two
\* projects, and an instance and a bucket of the first project.
MaxInstOps == 2
MaxBucketOps == 3

\* the instances tried by CreateInstance: TheInstance, and the instances
\* that differ from it in one field
CreateInstanceInputs ==
    {i \in [name : {"i", ""},
            region : {"us-east-1", "", "mars-1"},
            cpu : {0, 1, MaxCPU, MaxCPU + 1},
            memory_mb : {0, 1, MaxMemoryMB, MaxMemoryMB + 1},
            image : {"", "img1", "img2"},
            status : {"", "running", "stopped", "paused"}] :
        Cardinality({f \in DOMAIN TheInstance : i[f] # TheInstance[f]}) <= 1}

\* the UpdateInstanceRequests tried: at most one field given, or the CPU and
\* the memory, each at its limit or over it
UpdateInstanceInputs ==
    {u \in [name : {{}, {"j"}},
            cpu : {{}, {0}, {MaxCPU}, {MaxCPU + 1}},
            memory_mb : {{}, {0}, {MaxMemoryMB}, {MaxMemoryMB + 1}},
            image : {{}, {""}, {"img1"}, {"img2"}},
            status : {{}, {""}, {"stopped"}, {"paused"}}] :
        \/ Cardinality({f \in DOMAIN u : u[f] # {}}) <= 1
        \/ /\ {f \in DOMAIN u : u[f] # {}} = {"cpu", "memory_mb"}
           /\ u.cpu # {0} /\ u.memory_mb # {0}}

\* the request that gives no field
NilUpdate ==
    [name |-> {}, cpu |-> {}, memory_mb |-> {}, image |-> {}, status |-> {}]

\* the bucket names tried
BucketNames == {"n", "m", "", "a/b"}

\* the calls on instances tried on the tables d: the projects and the
\* instances named are stored ones, or the instance 0 that no row has
InstCalls(d) ==
    {[SvcRequest("CreateInstance", p.id, "") EXCEPT !.inst = i] :
        p \in d.projects, i \in CreateInstanceInputs}
    \cup {[SvcRequest("UpdateInstance", i.id, "") EXCEPT !.inst = u] :
        i \in d.instances, u \in UpdateInstanceInputs}
    \cup {[SvcRequest("UpdateInstance", 0, "") EXCEPT !.inst = NilUpdate]}

\* the calls on buckets tried on the tables d: the projects and the buckets
\* named are stored ones, or the project 0 and the bucket "ghost"
BucketCalls(d) ==
    {SvcRequest("CreateBucket", p, n) :
        p \in {0} \cup {x.id : x \in d.projects}, n \in BucketNames}
    \cup {[SvcRequest("UpdateBucket", 0, n) EXCEPT !.bucket = b] :
        b \in {"ghost"} \cup {x.id : x \in d.buckets}, n \in BucketNames}

\* the tables after CreateOrganization(oa), CreateProject(p) and
\* CreateProject(q) in it, and CreateInstance(TheInstance) and
\* CreateBucket(n) in project p
InstInit ==
    /\ metadata = {}
    /\ LET d1 == RepoCreate([EmptyDB EXCEPT !.ids = 1], "organizations",
                            [id |-> 1, slug |-> "oa"]).db
           k == CreateAPIKeyRow(d1, 1, "default")
           d2 == RepoCreate([d1 EXCEPT !.ids = k.key.id], "api_keys", k.key).db
           d3 == RepoCreate([d2 EXCEPT !.ids = @ + 1], "projects",
                            [id |-> d2.ids + 1, org_id |-> 1, slug |-> "p"]).db
           d4 == RepoCreate([d3 EXCEPT !.ids = @ + 1], "projects",
                            [id |-> d3.ids + 1, org_id |-> 1, slug |-> "q"]).db
           d5 == ChildRepoCreate([d4 EXCEPT !.ids = @ + 1], "instances",
                                 [id |-> d4.ids + 1, project_id |-> d2.ids + 1]
                                 @@ TheInstance).db
       IN  db = ChildRepoCreate(d5, "buckets", BucketRow(d2.ids + 1, "n")).db
    /\ pc = [w \in Workers |-> "idle"]
    /\ req = [w \in Workers |-> SvcRequest("", 0, "")]
    /\ resp = [w \in Workers |-> NoResult]
    /\ pre = [w \in Workers |-> NoLocals]
    /\ nops = 0

InstCall(w) == CallOf(w, InstCalls(db), MaxInstOps)
BucketCall(w) == CallOf(w, BucketCalls(db), MaxBucketOps)

\* the check of Service.UpdateInstance on the image, without it
ImageChangesNever(u, current) == FALSE

\* Service.UpdateInstance refuses the request: it changes the image
ImageChanges(u, current) == u.image # {} /\ Deref(u.image) # current.image

\* the instance row after the fields given by the request are set
ApplyUpdate(row, u) ==
    [f \in DOMAIN row |->
        IF f \in DOMAIN u /\ u[f] # {} THEN Deref(u[f]) ELSE row[f]]

\* Service.UpdateInstance: s1 instanceRepo.GetByID and the checks on the
\* request, then instanceRepo.Update as ProjectRepository.Update does it:
\* s2 GetByID and the fields given set on the row read, s3 the UPDATE of the
\* row's columns
SvcUpdateInstance(w) ==
    /\ req[w].op = "UpdateInstance"
    /\ LET u == req[w].inst
           rows == {i \in db.instances : i.id = req[w].id}
           current == CHOOSE i \in rows : TRUE
       IN
       \/ /\ pc[w] = "s1"
          /\ IF rows = {} THEN SvcReturn(w, db, "NotFound")
             ELSE IF ImageChanges(u, current) THEN SvcReturn(w, db, "InvalidInput")
             ELSE IF u.name # {} /\ ~ValidName(Deref(u.name))
             THEN SvcReturn(w, db, "InvalidInput")
             ELSE IF /\ (u.cpu # {} \/ u.memory_mb # {})
                     /\ ~validateInstanceSpecs(
                            IF u.cpu # {} THEN Deref(u.cpu) ELSE current.cpu,
                            IF u.memory_mb # {} THEN Deref(u.memory_mb)
                            ELSE current.memory_mb,
                            current.image)
             THEN SvcReturn(w, db, "InvalidInput")
             ELSE IF u.status # {} /\ ~validateInstanceStatus(Deref(u.status))
             THEN SvcReturn(w, db, "InvalidInput")
             ELSE SvcGoto(w, db, "s2", pre[w])
       \/ /\ pc[w] = "s2"
          /\ IF rows = {} THEN SvcReturn(w, db, "NotFound")
             ELSE SvcGoto(w, db, "s3",
                          [id |-> 0, err |-> "", row |-> ApplyUpdate(current, u)])
       \/ /\ pc[w] = "s3"
          /\ IF \E i \in db.instances :
                    /\ i.id # pre[w].row.id /\ rows # {}
                    /\ i.project_id = pre[w].row.project_id
                    /\ i.name = pre[w].row.name
             THEN SvcReturn(w, db, "Internal")
             ELSE SvcReturn(w, [db EXCEPT !.instances =
                                   {IF i.id = req[w].id THEN pre[w].row ELSE i : i \in @}],
                            "")

\* Service.UpdateBucket: validateBucketName, bucketRepo.GetByID and the
\* comparison of the names; no statement writes
SvcUpdateBucket(w) ==
    /\ req[w].op = "UpdateBucket"
    /\ pc[w] = "s1"
    /\ LET rows == {b \in db.buckets : b.id = req[w].bucket}
       IN  IF ~ValidName(req[w].arg) THEN SvcReturn(w, db, "InvalidInput")
           ELSE IF rows = {} THEN SvcReturn(w, db, "NotFound")
           ELSE IF req[w].arg # (CHOOSE b \in rows : TRUE).name
           THEN SvcReturn(w, db, "InvalidInput")
           ELSE SvcReturn(w, db, "")

InstNext ==
    \E w \in Workers :
        \/ InstCall(w)
        \/ SvcCreateInstance(w)
        \/ SvcUpdateInstance(w)

SpecInst == InstInit /\ [][InstNext]_vars

BucketNext ==
    \E w \in Workers :
        \/ BucketCall(w)
        \/ SvcCreateBucket(w)
        \/ SvcUpdateBucket(w)

SpecBucket == InstInit /\ [][BucketNext]_vars

(* --------------- the state machine of spec.md section 4.2 ------------- *)
\* one operation applied atomically to the (blob, lock) pair s of its state id
SeqStep(s, rq) ==
    LET d == DecodeJSON(rq.body)
        Invalid == [s |-> s, resp |-> Response("InvalidInput", NoBody)]
    IN  CASE rq.method = "GET" ->
                [s |-> s,
                 resp |-> IF s.blob = {} THEN Response("NotFound", NoBody)
                          ELSE Response("OK", CHOOSE b \in s.blob : TRUE)]
          [] rq.method = "POST" ->
                IF rq.body = NoBody THEN Invalid
                ELSE [s |-> [s EXCEPT !.blob = {rq.body}], resp |-> Response("OK", NoBody)]
          [] rq.method = "DELETE" ->
                [s |-> [blob |-> {}, lock |-> {}], resp |-> Response("OK", NoBody)]
          [] rq.method = "LOCK" ->
                IF ~d.ok \/ d.lock["ID"] = "" THEN Invalid
                ELSE IF s.lock = {}
                THEN [s |-> [s EXCEPT !.lock = {d.lock}],
                      resp |-> Response("OK", MarshalLock(d.lock))]
                ELSE [s |-> s,
                      resp |-> Response("Conflict", MarshalLock(CHOOSE l \in s.lock : TRUE))]
          [] rq.method = "UNLOCK" ->
                IF ~d.ok \/ d.lock["ID"] = "" THEN Invalid
                ELSE IF s.lock = {}
                THEN [s |-> s, resp |-> Response("NoLockHeld", NoBody)]
                ELSE IF (CHOOSE l \in s.lock : TRUE)["ID"] = d.lock["ID"]
                THEN [s |-> [s EXCEPT !.lock = {}], resp |-> Response("OK", NoBody)]
                ELSE [s |-> s,
                      resp |-> Response("LockMismatch",
                                        MarshalLock(CHOOSE l \in s.lock : TRUE))]

(* ------------------------------ claims -------------------------------- *)
\* client c's pending request is answered in this step
Handled(c) == pc[c] = "pending" /\ pc'[c] = "done"
\* the token a LOCK or UNLOCK body carries ("" when it carries none)
TokenOf(rq) == UnmarshalLock(rq.body)["ID"]
WellFormedLock(rq) == WellTyped(rq.body) /\ TokenOf(rq) # ""
LockRowsOf(md, i) == RowsAt(md, TFStateOrg, LockPath(i))

\* C1: in every reachable state, each state id has at most one LockRecord
\* stored in the metadata table.
C1_AtMostOneLockRecord ==
    \A i \in StateIds : Cardinality(LockRowsOf(metadata, i)) <= 1

\* a second acquire was tried on a locked id and the id still holds one record
C1_Witness ==
    \E c \in Clients :
        /\ pc[c] = "done" /\ req[c].method = "LOCK" /\ resp[c].kind = "Conflict"
        /\ Cardinality(LockRowsOf(metadata, req[c].id)) = 1

\* C2: of the racers that called AcquireLock concurrently on one unlocked id
\* with pairwise distinct tokens, exactly one is answered Acquired; every
\* other one is answered Conflict carrying the winner's record; and the
\* stored record is the winner's.
C2_ExactlyOneWinner ==
    LET done == {c \in Racers : pc[c] = "done"}
        winners == {c \in done : resp[c].kind = "OK"}
    IN  done # {} =>
            /\ Cardinality(winners) = 1
            /\ \A w \in winners :
                /\ Cardinality(LockRowsOf(metadata, req[w].id)) = 1
                /\ LocksOf(metadata, req[w].id) = {UnmarshalLock(req[w].body)}
                /\ UnmarshalLock(resp[w].body) = UnmarshalLock(req[w].body)
                /\ \A c \in done \ winners :
                    /\ resp[c].kind = "Conflict"
                    /\ UnmarshalLock(resp[c].body) = UnmarshalLock(req[w].body)

\* all racers have been answered
C2_Witness ==
    /\ \A c \in Racers : pc[c] = "done"
    /\ \E c \in Racers : resp[c].kind = "Conflict"

\* C3: AcquireLock(id, R2), R2 carrying a token, on an id locked with R1 is
\* answered Conflict with R1 and changes nothing in the table: R2 is not
\* stored, R1 and the blob stay as they were.
C3_ConflictReturnsExisting ==
    [][\A c \in Clients :
        (/\ Handled(c) /\ req[c].method = "LOCK" /\ WellFormedLock(req[c])
         /\ LocksOf(metadata, req[c].id) # {})
        => /\ resp'[c].kind = "Conflict"
           /\ {UnmarshalLock(resp'[c].body)} = LocksOf(metadata, req[c].id)
           /\ metadata' = metadata]_vars

\* a caller with another record was answered Conflict with the holder's record
C3_Witness ==
    \E c \in Clients :
        /\ pc[c] = "done" /\ req[c].method = "LOCK" /\ resp[c].kind = "Conflict"
        /\ UnmarshalLock(req[c].body) \notin pre[c].lock
        /\ UnmarshalLock(resp[c].body) \in pre[c].lock
        /\ LocksOf(metadata, req[c].id) = pre[c].lock

\* C4: ReleaseLock(id, token) on an id locked with R1: with a token other than
\* R1.ID it is answered Mismatch with R1 and R1 stays the lock; the lock is
\* removed exactly when the token equals R1.ID.
C4_MismatchKeepsLock ==
    [][\A c \in Clients :
        (/\ Handled(c) /\ req[c].method = "UNLOCK"
         /\ LocksOf(metadata, req[c].id) # {})
        => LET i == req[c].id
               R1 == CHOOSE l \in LocksOf(metadata, i) : TRUE
           IN  /\ (LocksOf(metadata', i) = {}) <=> (TokenOf(req[c]) = R1["ID"])
               /\ LocksOf(metadata', i) \subseteq LocksOf(metadata, i)
               /\ (WellFormedLock(req[c]) /\ TokenOf(req[c]) # R1["ID"])
                    => /\ resp'[c].kind = "LockMismatch"
                       /\ UnmarshalLock(resp'[c].body) = R1
                       /\ metadata' = metadata]_vars

\* a release with a wrong token was answered Mismatch and the lock is still held
C4_Witness ==
    \E c \in Clients :
        /\ pc[c] = "done" /\ req[c].method = "UNLOCK" /\ resp[c].kind = "LockMismatch"
        /\ pre[c].lock # {}
        /\ LocksOf(metadata, req[c].id) = pre[c].lock
        /\ \A l \in pre[c].lock : l["ID"] # TokenOf(req[c])

C7_ReleaseThenReacquire ==
    [][\A c \in Clients :
        Handled(c) =>
            LET i == req[c].id
            IN  /\ (/\ req[c].method = "UNLOCK" /\ WellFormedLock(req[c])
                     /\ \E l \in LocksOf(metadata, i) : l["ID"] = TokenOf(req[c]))
                    => /\ resp'[c].kind = "OK"
                       /\ LocksOf(metadata', i) = {}
                       /\ \A d \in Clients, t \in Tokens :
                            LET r == Serve(metadata', Request("LOCK", i, ClientLock(d, t)))
                            IN  /\ r.resp.kind = "OK"
                                /\ LocksOf(r.md, i) = {ClientLock(d, t)}
                /\ (/\ req[c].method = "LOCK" /\ WellFormedLock(req[c])
                     /\ LocksOf(metadata, i) = {})
                    => /\ resp'[c].kind = "OK"
                       /\ LocksOf(metadata', i) = {UnmarshalLock(req[c].body)}]_vars

\* a lock was released with its token and the id was then acquired again
C7_Witness ==
    \E c, d \in Clients :
        /\ req[c].id = req[d].id
        /\ pc[c] = "done" /\ req[c].method = "UNLOCK" /\ resp[c].kind = "OK"
        /\ \E l \in pre[c].lock : l["ID"] = TokenOf(req[c])
        /\ pc[d] = "done" /\ req[d].method = "LOCK" /\ resp[d].kind = "OK"
        /\ pre[d].lock = {}
        /\ LocksOf(metadata, req[d].id) = {UnmarshalLock(req[d].body)}

\* C8: DeleteState(id) on a locked id removes the blob and the lock: right
\* after it GetState(id) answers not found and AcquireLock(id, R2) with any
\* token succeeds and stores R2.
C8_DeleteClearsLock ==
    [][\A c \in Clients :
        (/\ Handled(c) /\ req[c].method = "DELETE"
         /\ LocksOf(metadata, req[c].id) # {})
        => LET i == req[c].id
           IN  /\ resp'[c].kind = "OK"
               /\ BlobsOf(metadata', i) = {}
               /\ LockRowsOf(metadata', i) = {}
               /\ Serve(metadata', Request("GET", i, NoBody)).resp.kind = "NotFound"
               /\ \A d \in Clients, t \in Tokens :
                    LET r == Serve(metadata', Request("LOCK", i, ClientLock(d, t)))
                    IN  /\ r.resp.kind = "OK"
                        /\ LocksOf(r.md, i) = {ClientLock(d, t)}]_vars

\* a state id holding a blob and a lock was deleted and now holds neither
C8_Witness ==
    \E c \in Clients :
        /\ pc[c] = "done" /\ req[c].method = "DELETE" /\ resp[c].kind = "OK"
        /\ pre[c].blob # {} /\ pre[c].lock # {}
        /\ BlobsOf(metadata, req[c].id) = {}
        /\ LocksOf(metadata, req[c].id) = {}

C10_RoundTrip ==
    [][\A c \in Clients :
        Handled(c) =>
            LET i == req[c].id
            IN  /\ (req[c].method = "POST" /\ req[c].body # NoBody)
                    => /\ resp'[c].kind = "OK"
                       /\ BlobsOf(metadata', i) = {req[c].body}
                       /\ Serve(metadata', Request("GET", i, NoBody)).resp
                            = Response("OK", req[c].body)
                /\ \A j \in StateIds :
                    (j # i \/ req[c].method \notin {"POST", "DELETE"})
                    => BlobsOf(metadata', j) = BlobsOf(metadata, j)
                /\ (req[c].method = "GET" /\ BlobsOf(metadata, i) # {})
                    => /\ resp'[c].kind = "OK"
                       /\ BlobsOf(metadata, i) = {resp'[c].body}]_vars

\* a blob was overwritten by another one, which a later GetState returned
C10_Witness ==
    \E c, d \in Clients :
        /\ req[c].id = req[d].id
        /\ pc[d] = "done" /\ req[d].method = "POST" /\ resp[d].kind = "OK"
        /\ pre[d].blob # {} /\ req[d].body \notin pre[d].blob
        /\ pc[c] = "done" /\ req[c].method = "GET" /\ resp[c].kind = "OK"
        /\ resp[c].body = req[d].body
        /\ pre[c].blob = {req[d].body}

\* C11: GetState on a state id that holds no blob, in particular one never
\* written, is answered not found (404, not an internal error) with no body,
\* and the table stays as it was.
C11_GetUnknownNotFound ==
    [][\A c \in Clients :
        (/\ Handled(c) /\ req[c].method = "GET"
         /\ BlobsOf(metadata, req[c].id) = {})
        => /\ resp'[c] = Response("NotFound", NoBody)
           /\ WriteErrorStatus(resp'[c].kind) = 404
           /\ metadata' = metadata]_vars

\* GetState on an empty table was answered not found and the table is empty
C11_Witness ==
    \E c \in Clients :
        /\ pc[c] = "done" /\ req[c].method = "GET" /\ resp[c].kind = "NotFound"
        /\ pre[c].blob = {} /\ pre[c].lock = {}
        /\ metadata = {}

\* C12: DeleteState succeeds whether the id holds a blob or not; a second
\* DeleteState right after it succeeds too and leaves the table as the first
\* one left it, and GetState after both answers not found.
C12_DeleteIdempotent ==
    [][\A c \in Clients :
        (Handled(c) /\ req[c].method = "DELETE")
        => LET i == req[c].id
               second == Serve(metadata', Request("DELETE", i, NoBody))
           IN  /\ resp'[c].kind = "OK"
               /\ second.resp.kind = "OK"
               /\ second.md = metadata'
               /\ Serve(second.md, Request("GET", i, NoBody)).resp.kind = "NotFound"]_vars

\* a state id was deleted twice in a row: the second delete found nothing and
\* succeeded
C12_Witness ==
    \E c, d \in Clients :
        /\ c # d /\ req[c].id = req[d].id
        /\ pc[c] = "done" /\ req[c].method = "DELETE" /\ resp[c].kind = "OK"
        /\ pre[c].blob # {}
        /\ pc[d] = "done" /\ req[d].method = "DELETE" /\ resp[d].kind = "OK"
        /\ pre[d].blob = {} /\ pre[d].lock = {}
        /\ BlobsOf(metadata, req[d].id) = {}

\* C13: while a state id is locked, as while it is unlocked, SetState with a
\* non-empty body succeeds, makes the body the blob and leaves the lock as it
\* was, and GetState answers as the blob says and leaves the lock as it was:
\* no write is rejected for lack of a lock.
C13_WriteWhileLocked ==
    [][\A c \in Clients :
        Handled(c) =>
            LET i == req[c].id
            IN  /\ (req[c].method = "POST" /\ req[c].body # NoBody)
                    => /\ resp'[c].kind = "OK"
                       /\ BlobsOf(metadata', i) = {req[c].body}
                       /\ LockRowsOf(metadata', i) = LockRowsOf(metadata, i)
                /\ req[c].method = "GET"
                    => /\ resp'[c].kind = IF BlobsOf(metadata, i) = {}
                                          THEN "NotFound" ELSE "OK"
                       /\ resp'[c].kind \notin {"Conflict", "LockMismatch"}
                       /\ metadata' = metadata]_vars

\* a client wrote the first blob of a state id that another client holds the
\* lock of
C13_Witness ==
    \E c \in Clients :
        /\ pc[c] = "done" /\ req[c].method = "POST" /\ resp[c].kind = "OK"
        /\ pre[c].blob = {}
        /\ pre[c].lock # {}
        /\ \A l \in pre[c].lock : l["Who"] # ToString(c)
        /\ BlobsOf(metadata, req[c].id) = {req[c].body}
        /\ LocksOf(metadata, req[c].id) = pre[c].lock

\* the rows of the table that belong to state id i
RowsOfId(md, i) ==
    RowsAt(md, TFStateOrg, StatePath(i)) \cup RowsAt(md, TFStateOrg, LockPath(i))

\* the handler of client c's pending request can take its step
CanServe(c) ==
    ENABLED (\/ TFStateGet(c) \/ TFStatePost(c) \/ TFStateDelete(c)
             \/ TFStateLock(c) \/ TFStateUnlock(c))

C16_InvalidInputRejected ==
    /\ [](\A i \in StateIds : \A l \in LocksOf(metadata, i) : l["ID"] # "")
    /\ [][\A c \in Clients :
            (/\ Handled(c)
             /\ \/ req[c].method = "LOCK" /\ req[c].body = ClientLock(c, "")
                \/ /\ req[c].method \in {"LOCK", "UNLOCK"}
                   /\ req[c].body \in {Malformed, IllTyped})
            => /\ resp'[c] = Response("InvalidInput", NoBody)
               /\ WriteErrorStatus(resp'[c].kind) = 400
               /\ metadata' = metadata]_vars

\* a LOCK whose body has an ID and a Created that is no time was rejected on
\* an id holding a blob and another lock, and both are still there
C16_Witness ==
    \E c \in Clients :
        /\ pc[c] = "done" /\ req[c].method = "LOCK" /\ req[c].body = IllTyped
        /\ resp[c].kind = "InvalidInput"
        /\ pre[c].blob # {} /\ pre[c].lock # {}
        /\ BlobsOf(metadata, req[c].id) = pre[c].blob
        /\ LocksOf(metadata, req[c].id) = pre[c].lock

\* C17: ReleaseLock with a token on a state id that holds no lock is answered
\* "no lock held", not Mismatch and not an error, and leaves the table as it
\* was; so the same release repeated right after a successful one is answered
\* "no lock held".
C17_ReleaseWithoutLock ==
    [][\A c \in Clients :
        (/\ Handled(c) /\ req[c].method = "UNLOCK"
         /\ \E t \in Tokens : req[c].body = [ID |-> t])
        => LET i == req[c].id
           IN  /\ LockRowsOf(metadata, i) = {}
                    => /\ resp'[c] = Response("NoLockHeld", NoBody)
                       /\ metadata' = metadata
               /\ resp'[c].kind = "OK"
                    => /\ LockRowsOf(metadata', i) = {}
                       /\ Serve(metadata', req[c]).resp = Response("NoLockHeld", NoBody)
                       /\ Serve(metadata', req[c]).md = metadata']_vars

\* a lock was released, and the same release sent again was answered "no lock
\* held"
C17_Witness ==
    \E c, d \in Clients :
        /\ c # d /\ req[c] = req[d]
        /\ pc[c] = "done" /\ req[c].method = "UNLOCK" /\ resp[c].kind = "OK"
        /\ pre[c].lock # {}
        /\ pc[d] = "done" /\ resp[d].kind = "NoLockHeld"
        /\ pre[d].lock = {}
        /\ LocksOf(metadata, req[d].id) = {}

\* C18: SetState with an empty body is answered InvalidInput (400) and leaves
\* the table, so the blob and the lock of the id, as it was.
C18_EmptyBodyRejected ==
    [][\A c \in Clients :
        (Handled(c) /\ req[c].method = "POST" /\ req[c].body = NoBody)
        => /\ resp'[c] = Response("InvalidInput", NoBody)
           /\ WriteErrorStatus(resp'[c].kind) = 400
           /\ metadata' = metadata]_vars

\* an empty write was rejected on an id holding a blob, which is still there
C18_Witness ==
    \E c \in Clients :
        /\ pc[c] = "done" /\ req[c].method = "POST" /\ req[c].body = NoBody
        /\ resp[c].kind = "InvalidInput"
        /\ pre[c].blob # {}
        /\ BlobsOf(metadata, req[c].id) = pre[c].blob
        /\ LocksOf(metadata, req[c].id) = pre[c].lock

\* the API keys stored whose token the Authorization header carries as a
\* Bearer token
KeysOf(d, header) ==
    {k \in d.api_keys :
        /\ header.present /\ header.scheme = "Bearer"
        /\ header.token = Token(PrefixAPI, k.id)}

\* C19: a request on a route under /v1 other than POST /v1/orgs, the routes
\* /v1/tfstate/{id} included, that carries no Bearer token of a stored API key
\* is answered 401 by the router and its handler is not called.
C19_APIKeyRequired ==
    [][\A c \in APIClients :
        (/\ pc[c] = "received" /\ pc'[c] # "received"
         /\ ~(req[c].path = "/orgs" /\ req[c].method = "POST")
         /\ KeysOf(db, req[c].auth) = {})
        => /\ pc'[c] = "done"
           /\ resp'[c].status = 401
           /\ db' = db /\ metadata' = metadata]_vars

C21_TokenRoundTrip ==
    pc = "parsed" =>
        /\ resp.parsed.ok
        /\ resp.parsed.prefix = req.prefix
        /\ pre = "CreateTokenFromData" => resp.parsed.data = req.data
        /\ pre = "CreateToken" => Len(resp.parsed.data) = req.n

\* C22: the handler of a LOCK or an UNLOCK request, whatever it answers,
\* leaves the state row of every id as it was: GetState on the request's id
\* answers after the step what it answered before it, NotFound for an id
\* never written.
C22_LockLeavesBlob ==
    [][\A c \in Clients :
        (Handled(c) /\ req[c].method \in {"LOCK", "UNLOCK"})
        => /\ \A i \in StateIds :
                RowsAt(metadata', TFStateOrg, StatePath(i))
                    = RowsAt(metadata, TFStateOrg, StatePath(i))
           /\ GetState(metadata', req[c].id).resp = GetState(metadata, req[c].id).resp
           /\ BlobsOf(metadata, req[c].id) = {}
                => GetState(metadata', req[c].id).resp.kind = "NotFound"]_vars

\* a lock was acquired on an id never written, which still has no blob, and
\* an UNLOCK was answered on an id that had a blob and keeps it
C22_Witness ==
    \E c, d \in Clients :
        /\ pc[c] = "done" /\ req[c].method = "LOCK" /\ resp[c].kind = "OK"
        /\ pre[c].blob = {} /\ BlobsOf(metadata, req[c].id) = {}
        /\ LocksOf(metadata, req[c].id) # {}
        /\ pc[d] = "done" /\ req[d].method = "UNLOCK"
        /\ pre[d].blob # {} /\ BlobsOf(metadata, req[d].id) = pre[d].blob

\* the call of worker w returns in this step
Returns(w) == pc[w] # "done" /\ pc'[w] = "done"

\* C23: when CreateOrganization returns success the organization and its
\* "default" API key are both stored, and when it returns an error no
\* organization created by the call is stored, whatever the other requests
\* do in between.
C23_CreateOrganizationAtomic ==
    [][\A w \in Workers :
        (Returns(w) /\ req[w].op = "CreateOrganization")
        => IF resp'[w].err = ""
           THEN /\ OrgGetByID(db', pre[w].id) # {}
                /\ \E k \in APIKeyListByOrgID(db', pre[w].id) : k.name = "default"
           ELSE pre[w].id = 0 \/ OrgGetByID(db', pre[w].id) = {}]_vars

\* C24: DeleteOrganization returns success only for an organization without
\* projects and DeleteProject only for a project without instances and
\* buckets, and the step in which either returns removes no instance, no
\* bucket and no project other than the one DeleteProject names: a parent's
\* delete removes no child, also one created between the count and the
\* DELETE.
C24_ParentDeleteKeepsChildren ==
    [][\A w \in Workers :
        (Returns(w) /\ req[w].op \in {"DeleteOrganization", "DeleteProject"})
        => /\ (resp'[w].err = "" /\ req[w].op = "DeleteOrganization")
                => ProjectList(db, req[w].id) = {}
           /\ (resp'[w].err = "" /\ req[w].op = "DeleteProject")
                => \A r \in db.instances \cup db.buckets : r.project_id # req[w].id
           /\ db.instances \subseteq db'.instances
           /\ db.buckets \subseteq db'.buckets
           /\ \A p \in db.projects \ db'.projects :
                req[w].op = "DeleteProject" /\ req[w].id = p.id]_vars

\* the tables of d, without the count of the ids generated
Tables(d) == [d EXCEPT !.ids = 0]
\* the parent row named by worker w's Create call is not stored
ParentMissing(w) ==
    CASE req[w].op = "CreateProject" -> OrgGetByID(db, req[w].id) = {}
      [] req[w].op \in {"CreateInstance", "CreateBucket"} ->
            \A p \in db.projects : p.id # req[w].id
      [] req[w].op = "CreateObject" -> \A b \in db.buckets : b.id # req[w].bucket
      [] OTHER -> FALSE

CurrentOf(w) == {i \in db.instances : i.id = req[w].id}

\* C26: no step changes the image of a stored instance, whichever
\* UpdateInstance calls run and however they interleave; and an
\* UpdateInstance call that returns while its request gives an image other
\* than the stored one returns InvalidInput and changes no table.
C26_ImageImmutable ==
    [][/\ \A i \in db.instances : \A j \in db'.instances :
            i.id = j.id => j.image = i.image
       /\ \A w \in Workers :
            (/\ Returns(w) /\ req[w].op = "UpdateInstance"
             /\ \E c \in CurrentOf(w) :
                    req[w].inst.image \notin {{}, {c.image}})
            => resp'[w].err = "InvalidInput" /\ db' = db]_vars

\* an UpdateInstance call that gave another image returned InvalidInput
\* while a concurrent UpdateInstance call changed the CPU of the same
\* instance, whose image is the one given at creation
C26_Witness ==
    \E w, v \in Workers :
        /\ w # v /\ pc[w] = "done" /\ pc[v] = "done"
        /\ req[w].op = "UpdateInstance" /\ req[v].op = "UpdateInstance"
        /\ req[w].id = req[v].id
        /\ req[w].inst.image = {"img2"} /\ resp[w].err = "InvalidInput"
        /\ req[v].inst.cpu = {MaxCPU} /\ resp[v].err = ""
        /\ \E i \in db.instances :
                i.id = req[w].id /\ i.cpu = MaxCPU /\ i.image = TheInstance.image

\* the bounds of an instance row
InBounds(i) ==
    /\ 1 <= i.cpu /\ i.cpu <= MaxCPU
    /\ 1 <= i.memory_mb /\ i.memory_mb <= MaxMemoryMB
    /\ i.image # ""
    /\ i.region \in ValidRegions
    /\ i.status \in {"running", "stopped"}

\* C29: every stored instance is within the bounds (cpu 1 to 64, memory_mb
\* 1 to 524288, image not empty, region one of ValidRegions, status running
\* or stopped), and a CreateInstance or UpdateInstance call that returns
\* while the row it would store is out of the bounds returns InvalidInput
\* and changes no table.
C29_InstanceBounds ==
    /\ [](\A i \in db.instances : InBounds(i))
    /\ [][\A w \in Workers :
            (/\ Returns(w)
             /\ \/ /\ req[w].op = "CreateInstance"
                   /\ ~InBounds([req[w].inst EXCEPT !.status = StatusOf(req[w].inst)])
                \/ /\ req[w].op = "UpdateInstance"
                   /\ \E c \in CurrentOf(w) : ~InBounds(ApplyUpdate(c, req[w].inst)))
            => resp'[w].err = "InvalidInput" /\ Tables(db') = Tables(db)]_vars

\* an UpdateInstance call set the CPU and the memory of an instance to their
\* limits, and a call that asked for one CPU more returned InvalidInput
C29_Witness ==
    \E w, v \in Workers :
        /\ pc[w] = "done" /\ pc[v] = "done"
        /\ req[w].op = "UpdateInstance" /\ resp[w].err = ""
        /\ req[v].op \in {"UpdateInstance", "CreateInstance"}
        /\ resp[v].err = "InvalidInput"
        /\ IF req[v].op = "UpdateInstance" THEN req[v].inst.cpu = {MaxCPU + 1}
           ELSE req[v].inst.cpu = MaxCPU + 1
        /\ \E i \in db.instances :
                i.id = req[w].id /\ i.cpu = MaxCPU /\ i.memory_mb = MaxMemoryMB

\* the stored bucket that worker w's UpdateBucket call names
CurrentBucket(w) == {b \in db.buckets : b.id = req[w].bucket}

\* C27: every stored bucket has its ID equal to its name and no step changes
\* the name of a stored bucket; an UpdateBucket call on a stored bucket
\* returns InvalidInput when the name given is not the bucket's and no error
\* when it is, and changes no table either way.
C27_BucketIDIsName ==
    /\ [](\A b \in db.buckets : b.id = b.name)
    /\ [][/\ \A b \in db.buckets : \A c \in db'.buckets :
                (b.id = c.id /\ b.project_id = c.project_id) => c.name = b.name
          /\ \A w \in Workers :
                (Returns(w) /\ req[w].op = "UpdateBucket")
                => /\ db' = db
                   /\ \A b \in CurrentBucket(w) :
                        resp'[w].err = IF req[w].arg # b.name THEN "InvalidInput"
                                       ELSE ""]_vars

\* an UpdateBucket call that gave another name for a stored bucket returned
\* InvalidInput, one that gave the bucket's name returned no error, and the
\* bucket is stored under its name
C27_Witness ==
    \E w, v \in Workers :
        /\ pc[w] = "done" /\ pc[v] = "done"
        /\ req[w].op = "UpdateBucket" /\ req[v].op = "UpdateBucket"
        /\ req[w].bucket = "m" /\ req[v].bucket = "m"
        /\ req[w].arg = "n" /\ resp[w].err = "InvalidInput"
        /\ req[v].arg = "m" /\ resp[v].err = ""
        /\ \E b \in db.buckets : b.id = "m" /\ b.name = "m"

\* C28: a CreateBucket call that returns while its project is stored, its
\* name is valid and the project has no bucket of that name returns no error
\* and stores the bucket, whatever buckets other projects hold.
C28_BucketNamesScopedByProject ==
    [][\A w \in Workers :
        (/\ Returns(w) /\ req[w].op = "CreateBucket"
         /\ \E p \in db.projects : p.id = req[w].id
         /\ ValidName(req[w].arg)
         /\ \A b \in db.buckets :
                ~(b.project_id = req[w].id /\ b.name = req[w].arg))
        => /\ resp'[w].err = ""
           /\ \E b \in db'.buckets :
                b.project_id = req[w].id /\ b.name = req[w].arg]_vars

\* the ids of the API keys that were deleted: ids handed out that no row has
\* (no organization and no project is deleted by these requests)
DeletedKeyIds(d) ==
    {n \in 1..d.ids :
        \A r \in d.organizations \cup d.projects \cup d.api_keys : r.id # n}

\* the step answers client c's DeleteAPIKey request
DeletesKey(c) ==
    pc[c] = "authed" /\ HandlerOf(req[c]) = "DeleteAPIKey" /\ pc'[c] = "done"

\* C30: a DeleteAPIKey request answered with success removes the key it
\* names, which belongs to the organization of the path, and nothing else; a
\* deleted key is never stored again; a request bearing the token of a
\* deleted key (on any route but POST /orgs) is answered 401 by the router
\* without its handler being called, while a request on an authenticated
\* route bearing the token of a stored key reaches its handler; and a
\* DeleteAPIKey request for a key of another organization than the path's is
\* answered NotFound and changes no table.
C30_RevocationEffective ==
    [][\A c \in APIClients :
        /\ (DeletesKey(c) /\ resp'[c].status = 204)
            => /\ db' = [db EXCEPT !.api_keys = @ \ APIKeyGetByID(db, req[c].key_id)]
               /\ \E k \in APIKeyGetByID(db, req[c].key_id) :
                    \E o \in db.organizations : o.slug = req[c].org /\ o.id = k.org_id
        /\ DeletedKeyIds(db) \subseteq DeletedKeyIds(db')
        /\ (/\ pc[c] = "received" /\ pc'[c] # "received"
            /\ ~(req[c].path = "/orgs" /\ req[c].method = "POST")
            /\ \E n \in DeletedKeyIds(db) :
                    req[c].auth = Header("Bearer", Token(PrefixAPI, n)))
            => pc'[c] = "done" /\ resp'[c].status = 401 /\ db' = db
        /\ (/\ pc[c] = "received" /\ pc'[c] # "received"
            /\ \E r \in Match(req[c]) : r.auth
            /\ KeysOf(db, req[c].auth) # {})
            => pc'[c] = "authed"
        /\ (/\ DeletesKey(c)
            /\ ResolveOrg(db, req[c]).err = ""
            /\ \E k \in APIKeyGetByID(db, req[c].key_id) :
                    \A o \in ResolveOrg(db, req[c]).org : o.id # k.org_id)
            => resp'[c].kind = "NotFound" /\ db' = db]_vars

====
